---------------------------- MODULE Spec2Model ----------------------------
(***************************************************************************)
(* Model of the CV/job matching core of the job-application assistant:     *)
(* the job field normaliser (services/utils.py), the similarity engine     *)
(* (services/nlp_service.py), the match scorer and ranker                  *)
(* (agents/matching_agent.py), the mail sender (services/email_service.py) *)
(* and the CV parser (agents/cv_analysis_agent.py).                        *)
(*                                                                         *)
(* Representation of Python values                                         *)
(*   str    a sequence of atoms; an atom is a maximal run of letters or    *)
(*          digits ("Acme"), one punctuation character (",") or one        *)
(*          whitespace character (" ", "\n").  The string is the           *)
(*          concatenation of its atoms, "" is << >>.  The texts the CV     *)
(*          parser reads are split down to one character per atom.         *)
(*   value  a tagged record: [t |-> "none"], [t |-> "str", v |-> s],       *)
(*          [t |-> "list", v |-> <<values>>], [t |-> "bool", v |-> b],     *)
(*          [t |-> "int", v |-> n].                                        *)
(*   dict   a function from the keys that are present to values.           *)
(***************************************************************************)
EXTENDS Integers, Sequences, FiniteSets, Bags, TLC

VARIABLES
    job_data,       \* get_job_field: the job record passed in
    field_name,     \* get_job_field: the logical field requested last
    field_value,    \* get_job_field: the value returned last
    model,          \* nlp_service.model: "None" (not loaded yet), "Loaded" or "False"
    backend,        \* whether loading the sentence transformer succeeds right now
    sim_call,       \* compute_similarity: the last call, its texts and its result
    cv_data,        \* the resume profile handed to the matching agent
    job_offers,     \* the job list handed to the matching agent
    call,           \* the last call of the scorer or the matching agent and its result
    baseline,       \* the first call of match_cv_with_jobs and its result
    applications_log,   \* application_agent.applications_log
    groq_service,   \* _groq_cover_letter_service: "None" or "GroqCoverLetterService"
    threads         \* the calls of compute_similarity in flight, one per thread

fieldVars == <<job_data, field_name, field_value>>
nlpVars == <<model, backend, sim_call>>
matchVars == <<cv_data, job_offers, call, baseline>>
appVars == <<applications_log, groq_service, threads>>
vars == <<job_data, field_name, field_value, model, backend, sim_call,
          cv_data, job_offers, call, baseline, applications_log, groq_service, threads>>

-----------------------------------------------------------------------------
(* Python values *)

None == [t |-> "none"]
PyStr(s) == [t |-> "str", v |-> s]
PyList(l) == [t |-> "list", v |-> l]
PyBool(b) == [t |-> "bool", v |-> b]
PyInt(n) == [t |-> "int", v |-> n]
PyDict(d) == [t |-> "dict", v |-> d]
\* a float with two decimals, c hundredths (round(x, 2))
PyFloat(c) == [t |-> "float", c |-> c]

\* bool(value)
Truthy(value) ==
    CASE value.t = "none" -> FALSE
      [] value.t = "bool" -> value.v
      [] value.t = "int" -> value.v # 0
      [] value.t = "float" -> value.c # 0
      [] value.t = "dict" -> DOMAIN value.v # {}
      [] OTHER -> value.v # << >>

\* a or b
PyOr(a, b) == IF Truthy(a) THEN a ELSE b

NotCalled == [t |-> "not_called"]

Whitespace == {" ", "\n"}

\* dict.get(key): the value, or None when the key is absent
DictGet(d, key) == IF key \in DOMAIN d THEN d[key] ELSE None

\* dict.get(key, default)
DictGetDefault(d, key, default) == IF key \in DOMAIN d THEN d[key] ELSE default

RECURSIVE LStrip(_)
LStrip(s) ==
    IF s = << >> THEN << >>
    ELSE IF Head(s) \in Whitespace THEN LStrip(Tail(s)) ELSE s

RECURSIVE RStrip(_)
RStrip(s) ==
    IF s = << >> THEN << >>
    ELSE IF s[Len(s)] \in Whitespace THEN RStrip(SubSeq(s, 1, Len(s) - 1)) ELSE s

\* str.strip()
Strip(s) == RStrip(LStrip(s))

Digits == <<"0", "1", "2", "3", "4", "5", "6", "7", "8", "9">>

RECURSIVE IntDigits(_)
IntDigits(n) ==
    IF n < 10 THEN Digits[n + 1] ELSE IntDigits(n \div 10) \o Digits[(n % 10) + 1]

RECURSIVE JoinStr(_, _)
\* sep.join(parts) for a sequence of strings
JoinStr(sep, parts) ==
    IF parts = << >> THEN << >>
    ELSE IF Len(parts) = 1 THEN parts[1]
    ELSE parts[1] \o sep \o JoinStr(sep, Tail(parts))

RECURSIVE Repr(_)
RECURSIVE ReprAll(_)
\* repr(value), as str() of a list renders its elements
Repr(value) ==
    CASE value.t = "none" -> <<"None">>
      [] value.t = "str" -> <<"'">> \o value.v \o <<"'">>
      [] value.t = "bool" -> IF value.v THEN <<"True">> ELSE <<"False">>
      [] value.t = "int" ->
            IF value.v < 0 THEN <<"-", IntDigits(0 - value.v)>> ELSE <<IntDigits(value.v)>>
      [] value.t = "list" -> <<"[">> \o JoinStr(<<",", " ">>, ReprAll(value.v)) \o <<"]">>
ReprAll(values) ==
    IF values = << >> THEN << >> ELSE <<Repr(Head(values))>> \o ReprAll(Tail(values))

\* str(value)
Str(value) == IF value.t = "str" THEN value.v ELSE Repr(value)

-----------------------------------------------------------------------------
(* services/utils.py: get_job_field *)

\* field_mapping.get(field_name, [field_name])
FieldMapping(name) ==
    CASE name = "title" -> <<"title">>
      [] name = "company" -> <<"company", "organization">>
      [] name = "location" -> <<"location", "locations_derived">>
      [] name = "type" -> <<"type", "employment_type">>
      [] name = "description" -> <<"description", "description_text">>
      [] name = "seniority" -> <<"seniority">>
      [] name = "remote" -> <<"remote_derived">>
      [] name = "application_email" -> <<"application_email">>
      [] OTHER -> <<name>>

RECURSIVE FilterListValue_KeepsAll(_)
\* FilterListValue without its condition: every entry is stringified and kept
FilterListValue_KeepsAll(values) ==
    IF values = << >> THEN << >>
    ELSE <<Str(Head(values))>> \o FilterListValue_KeepsAll(Tail(values))

RECURSIVE FilterListValue(_)
\* [str(v) for v in value if v is not None and str(v).strip()]
FilterListValue(values) ==
    IF values = << >> THEN << >>
    ELSE LET v == Head(values)
             rest == FilterListValue(Tail(values))
         IN IF v.t # "none" /\ Strip(Str(v)) # << >> THEN <<Str(v)>> \o rest ELSE rest

\* the branch taken for a list value: join the kept entries, '' when none is kept
ListFieldValue(values) ==
    LET filtered == FilterListValue(values)
    IN IF filtered # << >> THEN PyStr(JoinStr(<<",", " ">>, filtered)) ELSE PyStr(<< >>)

RECURSIVE CheckFields_ReturnsEmpty(_, _)
\* CheckFields returning the stripped string of the first non-null candidate even
\* when it is empty
CheckFields_ReturnsEmpty(job, fields) ==
    IF fields = << >> THEN PyStr(<< >>)
    ELSE LET value == DictGet(job, Head(fields))
         IN IF value.t # "none"
            THEN IF value.t = "list" THEN ListFieldValue(value.v)
                 ELSE IF value.t = "bool"
                      THEN (IF value.v THEN PyStr(<<"Yes">>) ELSE PyStr(<<"No">>))
                      ELSE PyStr(Strip(Str(value)))
            ELSE CheckFields_ReturnsEmpty(job, Tail(fields))

RECURSIVE CheckFields(_, _)
\* the loop "for field in fields_to_check", and the final return ''
CheckFields(job, fields) ==
    IF fields = << >> THEN PyStr(<< >>)
    ELSE LET value == DictGet(job, Head(fields))
         IN IF value.t # "none"
            THEN IF value.t = "list" THEN ListFieldValue(value.v)
                 ELSE IF value.t = "bool"
                      THEN (IF value.v THEN PyStr(<<"Yes">>) ELSE PyStr(<<"No">>))
                      ELSE LET str_value == Strip(Str(value))
                           IN IF str_value # << >> THEN PyStr(str_value)
                              ELSE CheckFields(job, Tail(fields))
            ELSE CheckFields(job, Tail(fields))

get_job_field(job, name) == CheckFields(job, FieldMapping(name))
-----------------------------------------------------------------------------
(* Text helpers *)

\* the elements of a sequence, as a set
Range(q) == { q[i] : i \in 1..Len(q) }

\* the characters of a string, for the texts that are read character by character:
\* there every atom is one character
Chars(str) == [i \in 1..Len(str) |-> SubSeq(str, i, i)]

UpperLetters == Range(Chars("ABCDEFGHIJKLMNOPQRSTUVWXYZ"))
LowerLetters == Range(Chars("abcdefghijklmnopqrstuvwxyz"))
Letters == UpperLetters \cup LowerLetters

\* str.lower() of one uppercase letter
LowerCase ==
    [c \in UpperLetters |->
        Chars("abcdefghijklmnopqrstuvwxyz")[
            CHOOSE i \in 1..26 : Chars("ABCDEFGHIJKLMNOPQRSTUVWXYZ")[i] = c]]

\* str.lower() of one atom
LowerAtom(a) ==
    CASE a = "Python" -> "python"   [] a = "SQL" -> "sql"
      [] a = "Docker" -> "docker"   [] a = "Jane" -> "jane"
      [] a = "Doe" -> "doe"         [] a = "Data" -> "data"
      [] a = "Engineer" -> "engineer" [] a = "Backend" -> "backend"
      [] a = "Developer" -> "developer" [] a = "Acme" -> "acme"
      [] a = "Corp" -> "corp"       [] a = "Globex" -> "globex"
      [] a = "Paris" -> "paris"     [] a = "Lyon" -> "lyon"
      [] a = "FULL" -> "full"       [] a = "TIME" -> "time"
      [] a = "MSc" -> "msc"         [] a = "Senior" -> "senior"
      [] a = "Name" -> "name"       [] a = "Skills" -> "skills"
      [] a = "Experience" -> "experience" [] a = "Education" -> "education"
      [] a = "Position" -> "position" [] a = "Company" -> "company"
      [] a = "Location" -> "location" [] a = "Remote" -> "remote"
      [] a = "Type" -> "type"       [] a = "Seniority" -> "seniority"
      [] a = "Description" -> "description" [] a = "Requirements" -> "requirements"
      [] a = "None" -> "none"       [] a = "True" -> "true"
      [] a = "False" -> "false"     [] a = "Yes" -> "yes"
      [] a = "No" -> "no"           [] a = "Build" -> "build"
      [] OTHER -> IF a \in UpperLetters THEN LowerCase[a] ELSE a

\* str.lower()
Lower(s) == [i \in 1..Len(s) |-> LowerAtom(s[i])]

RECURSIVE StrLen(_)
\* len(s): the number of characters
StrLen(s) == IF s = << >> THEN 0 ELSE Len(Head(s)) + StrLen(Tail(s))

RECURSIVE SplitFrom(_, _)
\* str.split(): the maximal runs of non-whitespace atoms; cur is the run being read
SplitFrom(s, cur) ==
    IF s = << >> THEN (IF cur = << >> THEN << >> ELSE <<cur>>)
    ELSE IF Head(s) \in Whitespace
         THEN (IF cur = << >> THEN << >> ELSE <<cur>>) \o SplitFrom(Tail(s), << >>)
         ELSE SplitFrom(Tail(s), Append(cur, Head(s)))

Split(s) == SplitFrom(s, << >>)

RECURSIVE SetToSeq(_)
\* the elements of a finite set in one fixed order
SetToSeq(S) ==
    IF S = {} THEN << >>
    ELSE LET x == CHOOSE y \in S : TRUE IN <<x>> \o SetToSeq(S \ {x})

-----------------------------------------------------------------------------
(* services/nlp_service.py: NLPService *)

SimScale == 1000    \* a similarity k stands for the float k / SimScale

\* a float: not-a-number, or the number q / SimScale
NaN == [nan |-> TRUE, q |-> 0]
Float(q) == [nan |-> FALSE, q |-> q]

\* _load_model that loads whenever the sentence transformer is available
LoadModel_LoadsWhenAvailable(mdl, available) ==
    IF available THEN "Loaded" ELSE IF mdl = "None" THEN "False" ELSE mdl

\* _load_model that does not record a failed load
LoadModel_RetriesAfterFailure(mdl, available) ==
    IF mdl = "None" THEN (IF available THEN "Loaded" ELSE "None") ELSE mdl

\* _load_model: the value of self.model after the call
LoadModel(mdl, available) ==
    IF mdl = "None" THEN (IF available THEN "Loaded" ELSE "False") ELSE mdl

\* self.model.encode(texts[i]): the sentence transformer, a fixed function of the
\* text into non-zero vectors that may point in opposite directions
Encode(text) ==
    <<(Len(Split(text)) % 4) - 1, (StrLen(text) % 5) - 2, 1>>

\* _simple_embeddings: presence vectors over the sorted vocabulary vocab of all texts
PresenceVectors(texts, vocab) ==
    [i \in 1..Len(texts) |->
        LET words == Range(Split(Lower(texts[i])))
        IN [j \in 1..Len(vocab) |-> IF vocab[j] \in words THEN 1 ELSE 0]]

SimpleEmbeddings(texts) ==
    PresenceVectors(texts,
        SetToSeq(UNION { Range(Split(Lower(texts[i]))) : i \in 1..Len(texts) }))

\* get_embeddings after _load_model: the model when it is loaded, else the fallback
GetEmbeddings(mdl, texts) ==
    IF mdl = "Loaded" THEN [i \in 1..Len(texts) |-> Encode(texts[i])]
    ELSE SimpleEmbeddings(texts)

RECURSIVE Dot(_, _)
\* np.dot
Dot(u, w) == IF u = << >> THEN 0 ELSE Head(u) * Head(w) + Dot(Tail(u), Tail(w))

RECURSIVE ISqrtIn(_, _, _)
\* the largest k in lo..hi with k * k <= n
ISqrtIn(n, lo, hi) ==
    IF lo >= hi THEN lo
    ELSE LET mid == (lo + hi + 1) \div 2
         IN IF mid * mid <= n THEN ISqrtIn(n, mid, hi) ELSE ISqrtIn(n, lo, mid - 1)

\* CosineQuotient dividing by norm1 * norm1
CosineQuotient_ByFirstNorm(dot, nsq1, nsq2) ==
    IF nsq1 = 0 THEN NaN
    ELSE IF dot < 0 THEN Float(0 - (((0 - dot) * SimScale) \div nsq1))
         ELSE Float((dot * SimScale) \div nsq1)

\* dot / (norm1 * norm2) in units of 1 / SimScale, from the squared norms; NaN when
\* the divisor is zero
CosineQuotient(dot, nsq1, nsq2) ==
    IF nsq1 * nsq2 = 0 THEN NaN
    ELSE LET q == ISqrtIn((dot * dot * SimScale * SimScale) \div (nsq1 * nsq2), 0, SimScale)
         IN IF dot < 0 THEN Float(0 - q) ELSE Float(q)

\* Clamp without the floor at 0.0
Clamp_NoFloor(similarity) ==
    IF similarity.nan THEN SimScale
    ELSE IF similarity.q < SimScale THEN similarity.q ELSE SimScale

\* float(max(0.0, min(1.0, similarity))); Python's min(1.0, nan) is 1.0
Clamp(similarity) ==
    LET upper == IF similarity.nan THEN SimScale
                 ELSE IF similarity.q < SimScale THEN similarity.q ELSE SimScale
    IN IF upper > 0 THEN upper ELSE 0

\* CosineSimilarity without the test for a zero norm
CosineSimilarity_NoZeroTest(e1, e2) ==
    Clamp(CosineQuotient(Dot(e1, e2), Dot(e1, e1), Dot(e2, e2)))

\* the cosine similarity of two embeddings, as compute_similarity computes it
CosineSimilarity(e1, e2) ==
    IF Dot(e1, e1) = 0 \/ Dot(e2, e2) = 0 THEN 0
    ELSE Clamp(CosineQuotient(Dot(e1, e2), Dot(e1, e1), Dot(e2, e2)))

\* compute_similarity once self.model is mdl (the state _load_model leaves)
EmbeddingsSimilarity(embeddings) == CosineSimilarity(embeddings[1], embeddings[2])

compute_similarity(mdl, text1, text2) ==
    EmbeddingsSimilarity(GetEmbeddings(mdl, <<text1, text2>>))

-----------------------------------------------------------------------------
(* services/utils.py: summaries and calculate_match_score *)

\* an exception leaving the call, and a normal return
Raised(exc) == [ok |-> FALSE, exc |-> exc]
Returned(v) == [ok |-> TRUE, v |-> v]

\* the lines of one list of experience or education entries
EntryLines(entries, first, link, second) ==
    [i \in 1..Len(entries) |->
        IF entries[i].t = "dict"
        THEN <<" ", " ", "-", " ">> \o Str(DictGetDefault(entries[i].v, first, PyStr(<< >>)))
                 \o <<" ", link, " ">>
                 \o Str(DictGetDefault(entries[i].v, second, PyStr(<< >>)))
        ELSE <<" ", " ", "-", " ">> \o Str(entries[i])]

\* ', '.join of a list of values, each one stringified
JoinValues(values) == JoinStr(<<",", " ">>, [i \in 1..Len(values) |-> Str(values[i])])

create_cv_summary(cv) ==
    LET name == IF Truthy(DictGet(cv, "name"))
                THEN << <<"Name", ":", " ">> \o Str(cv["name"]) >> ELSE << >>
        skills == IF Truthy(DictGet(cv, "skills"))
                  THEN << <<"Skills", ":", " ">> \o JoinValues(cv["skills"].v) >> ELSE << >>
        experience == IF Truthy(DictGet(cv, "experience"))
                      THEN << <<"Experience", ":">> >>
                               \o EntryLines(cv["experience"].v, "title", "at", "company")
                      ELSE << >>
        education == IF Truthy(DictGet(cv, "education"))
                     THEN << <<"Education", ":">> >>
                              \o EntryLines(cv["education"].v, "degree", "from", "institution")
                     ELSE << >>
    IN JoinStr(<<"\n">>, name \o skills \o experience \o education)

\* one labelled line of the job summary, or no line when the value is falsy
LabelledLine(label, value) ==
    IF Truthy(value) THEN << <<label, ":", " ">> \o Str(value) >> ELSE << >>

\* the location of the job summary: location, else locations_derived joined
SummaryLocation(job) ==
    LET location == DictGet(job, "location")
    IN IF ~Truthy(location) /\ Truthy(DictGet(job, "locations_derived"))
       THEN LET locations == job["locations_derived"]
            IN IF locations.t = "list" THEN PyStr(JoinValues(locations.v))
               ELSE PyStr(Str(locations))
       ELSE location

create_job_summary(job) ==
    LET title == LabelledLine("Position", DictGetDefault(job, "title", PyStr(<< >>)))
        company == LabelledLine("Company",
                       PyOr(DictGet(job, "company"),
                            DictGetDefault(job, "organization", PyStr(<< >>))))
        location == LabelledLine("Location", SummaryLocation(job))
        remote == LabelledLine("Remote", DictGet(job, "remote_derived"))
        job_type == LabelledLine("Type",
                        PyOr(DictGet(job, "type"),
                             DictGetDefault(job, "employment_type", PyStr(<< >>))))
        seniority == LabelledLine("Seniority", DictGet(job, "seniority"))
        description == LabelledLine("Description",
                           PyOr(DictGet(job, "description"),
                                DictGetDefault(job, "description_text", PyStr(<< >>))))
        requirements ==
            IF Truthy(DictGet(job, "requirements"))
            THEN << <<"Requirements", ":">> >>
                     \o [i \in 1..Len(job["requirements"].v) |->
                            <<" ", " ", "-", " ">> \o Str(job["requirements"].v[i])]
            ELSE << >>
    IN JoinStr(<<"\n">>, title \o company \o location \o remote \o job_type
                             \o seniority \o description \o requirements)

SimilarityWeight == 70
SkillWeight == 20
experience_score == 10
ScoreCap == 100
MinWordLen == 3

\* cv_skills: set([s.lower() for s in cv_data.get('skills', [])])
CvSkills(cv) ==
    LET skills == DictGetDefault(cv, "skills", PyList(<< >>))
    IN { Lower(skills.v[i].v) : i \in 1..Len(skills.v) }

\* RequirementWords keeping the words of 3 characters too
RequirementWords_AtLeast(req) ==
    { Lower(word) : word \in { w \in Range(Split(req)) : StrLen(w) >= MinWordLen } }

\* the words kept from one requirement string
RequirementWords(req) ==
    { Lower(word) : word \in { w \in Range(Split(req)) : StrLen(w) > MinWordLen } }

\* job_skills: the lowercased words longer than 3 characters of the requirements
JobSkills(job) ==
    LET job_requirements == DictGetDefault(job, "requirements", PyList(<< >>))
    IN UNION { RequirementWords(job_requirements.v[i].v) :
                  i \in 1..Len(job_requirements.v) }

\* a score as the exact fraction num / den
Fraction(num, den) == [num |-> num, den |-> den]

\* min(total_score, 100)
CapScore(total) ==
    IF total.num > ScoreCap * total.den THEN Fraction(ScoreCap, 1) ELSE total

\* min(base_score + skill_score + experience_score, 100) for the two skill sets
TotalScore(similarity_score, cv_skills, job_skills) ==
    LET divisor == IF Cardinality(job_skills) > 1 THEN Cardinality(job_skills) ELSE 1
        matched == IF cv_skills # {} /\ job_skills # {}
                   THEN Cardinality(cv_skills \cap job_skills) ELSE 0
    IN CapScore(Fraction(
           similarity_score * SimilarityWeight * divisor
               + matched * SkillWeight * SimScale
               + experience_score * SimScale * divisor,
           SimScale * divisor))

\* calculate_match_score for a similarity of similarity_score / SimScale; iterating
\* over requirements (or skills) that are None raises TypeError
calculate_match_score(cv, job, similarity_score) ==
    IF DictGetDefault(cv, "skills", PyList(<< >>)).t = "none"
          \/ DictGetDefault(job, "requirements", PyList(<< >>)).t = "none"
    THEN Raised("TypeError")
    ELSE Returned(TotalScore(similarity_score, CvSkills(cv), JobSkills(job)))

\* n / d rounded to the nearest integer, ties to even (n >= 0, d > 0)
RoundDiv(n, d) ==
    LET q == n \div d
        r == n % d
    IN IF 2 * r > d THEN q + 1
       ELSE IF 2 * r = d THEN q + (q % 2)
       ELSE q

\* round(x, 2) of the fraction x, in hundredths
Round2(x) == RoundDiv(100 * x.num, x.den)

-----------------------------------------------------------------------------
(* Inputs of the scorer and the matching agent *)

MaxJobs == 2

\* the sequences over S of length at most n
SeqsUpTo(S, n) == UNION { [1..k -> S] : k \in 0..n }
SimStep == 50

Words(ws) == [i \in 1..(2 * Len(ws) - 1) |-> IF i % 2 = 1 THEN ws[(i + 1) \div 2] ELSE " "]

Profile(name, skills, experience, education, raw_text) ==
    [k \in {"name", "skills", "experience", "education", "raw_text"} |->
        CASE k = "name" -> PyStr(name)
          [] k = "skills" -> PyList(skills)
          [] k = "experience" -> PyList(experience)
          [] k = "education" -> PyList(education)
          [] k = "raw_text" -> PyStr(raw_text)]

ResumeEmpty == Profile(<< >>, << >>, << >>, << >>, << >>)

ResumeJane ==
    Profile(Words(<<"Jane", "Doe">>), <<PyStr(<<"Python">>), PyStr(<<"SQL">>)>>, << >>, << >>,
            <<"Jane", " ", "Doe", "\n", "jane", "@", "x", ".", "com", "\n",
              "Skills", ":", " ", "Python", ",", " ", "SQL">>)

ResumeRaw == Profile(<< >>, << >>, << >>, << >>, Words(<<"python", "data", "engineer">>))

ResumeDev ==
    Profile(<< >>,
            <<PyStr(<<"Docker">>), PyStr(<<"Python">>), PyStr(<<"data">>)>>,
            <<PyDict([title |-> PyStr(<<"Engineer">>), company |-> PyStr(<<"Acme">>)])>>,
            <<PyDict([degree |-> PyStr(<<"MSc">>), institution |-> PyStr(<< >>)])>>,
            Words(<<"Docker", "Python", "data">>))

Resumes == { ResumeEmpty, ResumeJane, ResumeRaw, ResumeDev }

\* a record of the legacy scheme
JobData ==
    [id |-> PyInt(1), title |-> PyStr(Words(<<"Data", "Engineer">>)),
     company |-> PyStr(<<"Acme">>), location |-> PyStr(<<"Paris">>),
     description |-> PyStr(Words(<<"Build", "data", "pipelines">>)),
     requirements |-> PyList(<<PyStr(Words(<<"Python", "experience", "required">>)),
                               PyStr(Words(<<"SQL", "knowledge">>))>>)]

\* a record of the current scheme, without requirements
JobBackend ==
    [id |-> PyStr(<<"2">>), title |-> PyStr(Words(<<"Backend", "Developer">>)),
     organization |-> PyStr(<<"Globex">>),
     locations_derived |-> PyList(<<PyStr(<<"Paris">>)>>),
     employment_type |-> PyList(<<PyStr(<<"FULL", "_", "TIME">>)>>),
     remote_derived |-> PyBool(TRUE), seniority |-> PyStr(<<"Senior">>),
     description_text |-> PyStr(Words(<<"Python", "Docker", "services">>))]

\* a record whose requirements field is null
JobNullRequirements ==
    [id |-> PyInt(3), title |-> PyStr(Words(<<"Data", "Engineer">>)), requirements |-> None]

JobPython ==
    [id |-> PyInt(4), title |-> PyStr(Words(<<"Python", "Developer">>)),
     requirements |-> PyList(<<PyStr(Words(<<"python", "docker">>))>>)]

\* a record with an identifier only
JobBare == [id |-> PyInt(5)]

JobPool == { JobData, JobBackend, JobNullRequirements, JobPython, JobBare }

\* the job lists: up to MaxJobs different records of the pool
JobLists ==
    { l \in SeqsUpTo(JobPool, MaxJobs) : \A i, j \in 1..Len(l) : i # j => l[i] # l[j] }

TopNs == (0 - 1)..(MaxJobs + 1)

\* the similarity values handed to calculate_match_score directly
SimGrid == { k \in 0..SimScale : k % SimStep = 0 } \cup { SimScale }

-----------------------------------------------------------------------------
(* agents/matching_agent.py: MatchingAgent *)

ExcellentFrom == 80
GoodFrom == 60
ModerateFrom == 40
MaxMatchingSkills == 10
MaxListedSkills == 5

\* the fallback to raw_text when the structured summary cv_summary is blank
SummaryOrRawText(cv, cv_summary) ==
    IF Strip(cv_summary) = << >>
    THEN Str(DictGetDefault(cv, "raw_text", PyStr(<< >>)))
    ELSE cv_summary

\* cv_summary: the structured summary, or raw_text when that is blank
CvSummary(cv) == SummaryOrRawText(cv, create_cv_summary(cv))

\* nlp_service.compute_similarity(cv_summary, job_summary), as both
\* match_cv_with_jobs and explain_match call it
SummarySimilarity(mdl, cv, job) ==
    compute_similarity(mdl, CvSummary(cv), create_job_summary(job))

\* the values of self.model: not loaded yet, the loaded model, a failed load
Models == {"None", "Loaded", "False"}

\* SummarySimilarity evaluated once for each input of the model
SummarySimilarities ==
    [mdl \in Models, cv \in Resumes, job \in JobPool |-> SummarySimilarity(mdl, cv, job)]

\* the similarity of the summaries once self.model is mdl
SimilarityOf(mdl, cv, job) == SummarySimilarities[mdl, cv, job]

\* dict.copy() with one more key set
WithKey(d, key, value) ==
    [k \in (DOMAIN d) \cup {key} |-> IF k = key THEN value ELSE d[k]]

\* job_with_score: the copy of the job with both scores rounded, or the exception
\* calculate_match_score raised
JobWithScore(job, similarity_score, match_score) ==
    IF ~match_score.ok THEN match_score
    ELSE Returned(WithKey(WithKey(job, "match_score", PyFloat(Round2(match_score.v))),
                          "similarity_score",
                          PyFloat(RoundDiv(similarity_score * 100 * 100, SimScale))))

\* the loop body after compute_similarity returned similarity_score
ScoreJobAt(cv, job, similarity_score) ==
    JobWithScore(job, similarity_score, calculate_match_score(cv, job, similarity_score))

\* the body of the loop of match_cv_with_jobs for one job: the job with its scores,
\* or the exception calculate_match_score raises
ScoreJob(mdl, cv, job) == ScoreJobAt(cv, job, SimilarityOf(mdl, cv, job))

\* ScoreJob evaluated once for each input of the model
ScoredJobs ==
    [mdl \in Models, cv \in Resumes, job \in JobPool |-> ScoreJob(mdl, cv, job)]

\* the outcome of the loop body for one job once self.model is mdl
ScoreJobOf(mdl, cv, job) == ScoredJobs[mdl, cv, job]

RECURSIVE InsertDescending_Ascending(_, _)
\* InsertDescending with the comparison turned round: an ascending sort
InsertDescending_Ascending(sorted, x) ==
    IF sorted = << >> THEN <<x>>
    ELSE IF Head(sorted)["match_score"].c <= x["match_score"].c
         THEN <<Head(sorted)>> \o InsertDescending_Ascending(Tail(sorted), x)
         ELSE <<x>> \o sorted

RECURSIVE InsertDescending_BeforeEqual(_, _)
\* InsertDescending putting x before the elements of equal match_score
InsertDescending_BeforeEqual(sorted, x) ==
    IF sorted = << >> THEN <<x>>
    ELSE IF Head(sorted)["match_score"].c > x["match_score"].c
         THEN <<Head(sorted)>> \o InsertDescending_BeforeEqual(Tail(sorted), x)
         ELSE <<x>> \o sorted

RECURSIVE InsertDescending(_, _)
\* x put after the elements whose match_score is not smaller
InsertDescending(sorted, x) ==
    IF sorted = << >> THEN <<x>>
    ELSE IF Head(sorted)["match_score"].c >= x["match_score"].c
         THEN <<Head(sorted)>> \o InsertDescending(Tail(sorted), x)
         ELSE <<x>> \o sorted

RECURSIVE SortDescending(_)
\* matches.sort(key=lambda x: x['match_score'], reverse=True): a stable sort
SortDescending(matches) ==
    IF matches = << >> THEN << >>
    ELSE InsertDescending(SortDescending(SubSeq(matches, 1, Len(matches) - 1)),
                          matches[Len(matches)])

\* matches[:top_n + 1]
SliceTo_OneMore(matches, top_n) ==
    LET stop == IF top_n + 1 >= 0 THEN top_n + 1 ELSE Len(matches) + top_n + 1
    IN SubSeq(matches, 1, IF stop > Len(matches) THEN Len(matches)
                          ELSE IF stop < 0 THEN 0 ELSE stop)

\* matches[:top_n]
SliceTo(matches, top_n) ==
    LET stop == IF top_n >= 0 THEN top_n ELSE Len(matches) + top_n
    IN SubSeq(matches, 1, IF stop > Len(matches) THEN Len(matches)
                          ELSE IF stop < 0 THEN 0 ELSE stop)

\* the end of match_cv_with_jobs for the outcomes scored of the loop bodies: the
\* first exception raised, else the sorted matches cut at top_n
TopMatches(scored, top_n) ==
    LET failed == { i \in 1..Len(scored) : ~scored[i].ok }
    IN IF failed # {}
       THEN scored[CHOOSE i \in failed : \A j \in failed : i <= j]
       ELSE Returned(SliceTo(SortDescending([i \in 1..Len(scored) |-> scored[i].v]), top_n))

\* match_cv_with_jobs once self.model of the NLP service is mdl
match_cv_with_jobs(mdl, cv, jobs, top_n) ==
    TopMatches([i \in 1..Len(jobs) |-> ScoreJobOf(mdl, cv, jobs[i])], top_n)

\* JobAfterCopy without the copy: job_with_score is the input record itself
JobAfterCopy_Aliased(job, job_with_score) == job_with_score

\* an input record after "job_with_score = job.copy()" and the two assignments to
\* job_with_score: they go to the copy
JobAfterCopy(job, job_with_score) == job

\* the input list after the loop of match_cv_with_jobs: the loop body runs for
\* the records up to the first exception, the list itself is only read
OffersAfterMatch(mdl, cv, jobs) ==
    [i \in 1..Len(jobs) |->
        IF \A j \in 1..i : ScoreJobOf(mdl, cv, jobs[j]).ok
        THEN JobAfterCopy(jobs[i], ScoreJobOf(mdl, cv, jobs[i]).v)
        ELSE jobs[i]]

\* [(job, job['match_score']) for job in matches]
ScorePairs(matches) ==
    IF ~matches.ok THEN matches
    ELSE Returned([i \in 1..Len(matches.v) |->
                      <<matches.v[i], matches.v[i]["match_score"]>>])

rank_jobs(mdl, cv, jobs) == ScorePairs(match_cv_with_jobs(mdl, cv, jobs, Len(jobs)))

\* the tier of _generate_explanation
Level(match_score) ==
    IF match_score.num >= ExcellentFrom * match_score.den THEN "excellent"
    ELSE IF match_score.num >= GoodFrom * match_score.den THEN "good"
    ELSE IF match_score.num >= ModerateFrom * match_score.den THEN "moderate"
    ELSE "low"

\* f"{match_score:.1f}"
OneDecimal(match_score) ==
    LET tenths == RoundDiv(10 * match_score.num, match_score.den)
    IN <<IntDigits(tenths \div 10), ".", IntDigits(tenths % 10)>>

_generate_explanation(match_score, matching_skills) ==
    <<"This", " ", "is", " ", "a", " ", Level(match_score), " ", "match", " ", "(",
      "score", ":", " ">> \o OneDecimal(match_score) \o <<"/", "100", ")", ".", " ">>
    \o (IF matching_skills # << >>
        THEN <<"Your", " ", "profile", " ", "matches", " ", IntDigits(Len(matching_skills)),
               " ", "key", " ", "skills", " ", "including", ":", " ">>
             \o JoinStr(<<",", " ">>,
                        SubSeq(matching_skills, 1,
                               IF Len(matching_skills) > MaxListedSkills
                               THEN MaxListedSkills ELSE Len(matching_skills)))
             \o (IF Len(matching_skills) > MaxListedSkills
                 THEN <<" ", "and", " ", IntDigits(Len(matching_skills) - MaxListedSkills),
                        " ", "more", ".">>
                 ELSE << >>)
        ELSE <<"Consider", " ", "highlighting", " ", "relevant", " ", "transferable", " ",
               "skills", " ", "in", " ", "your", " ", "application", ".">>)

\* the dict explain_match returns, or the exception calculate_match_score raised
Explanation(job, similarity_score, match_score, matching_skills) ==
    IF ~match_score.ok THEN match_score
    ELSE Returned(
           [match_score |-> PyFloat(Round2(match_score.v)),
            similarity_score |-> PyFloat(RoundDiv(similarity_score * 100 * 100, SimScale)),
            matching_skills |->
                SubSeq(matching_skills, 1,
                       IF Len(matching_skills) > MaxMatchingSkills
                       THEN MaxMatchingSkills ELSE Len(matching_skills)),
            job_title |-> DictGetDefault(job, "title", PyStr(<< >>)),
            company |-> DictGetDefault(job, "company", PyStr(<< >>)),
            explanation |-> _generate_explanation(match_score.v, matching_skills)])

\* explain_match after compute_similarity returned similarity_score; list(set) is
\* taken in one fixed order
ExplainAt(cv, job, similarity_score) ==
    Explanation(job, similarity_score,
                calculate_match_score(cv, job, similarity_score),
                SetToSeq(CvSkills(cv) \cap JobSkills(job)))

\* explain_match once self.model of the NLP service is mdl
explain_match(mdl, cv, job) == ExplainAt(cv, job, SimilarityOf(mdl, cv, job))

-----------------------------------------------------------------------------
(* Inputs of the field normaliser *)

MaxListLen == 2

ScalarValues ==
    { None, PyStr(<< >>), PyStr(<<" ">>), PyStr(<<"Acme">>),
      PyStr(<<" ", "Acme", " ", "Corp", " ">>), PyBool(TRUE), PyBool(FALSE), PyInt(0) }

ListElements ==
    { None, PyStr(<< >>), PyStr(<<" ">>), PyStr(<<"Paris">>), PyStr(<<" ", "Lyon">>) }

ListValues ==
    { PyList(l) : l \in SeqsUpTo(ListElements, MaxListLen) }
        \cup { PyList(<<PyStr(<<"Paris">>), None, PyStr(<< >>)>>),
               PyList(<<PyStr(<<" ", "Lyon">>), None, PyStr(<<" ">>), PyStr(<<"Paris">>)>>) }

CompanyValues == ScalarValues \cup { PyList(<< >>), PyList(<<PyStr(<<"Acme">>)>>) }

LocationValues ==
    ListValues \cup { None, PyStr(<< >>), PyStr(<<" ">>), PyStr(<<"Paris">>) }

\* the dicts with keys among legacy and current, each present key holding a value of Vals
PairJobs(legacy, current, Vals) ==
    { [k \in {legacy} |-> a] : a \in Vals }
        \cup { [k \in {current} |-> b] : b \in Vals }
        \cup { [k \in {legacy, current} |-> IF k = legacy THEN a ELSE b] : a \in Vals, b \in Vals }

FieldJobs ==
    PairJobs("company", "organization", CompanyValues)
        \cup PairJobs("location", "locations_derived", LocationValues)
        \cup { [k \in {"remote_derived"} |-> a] : a \in ScalarValues }
        \cup { [k \in {} |-> None] }

FieldNames ==
    { "title", "company", "location", "type", "description", "seniority", "remote",
      "application_email", "organization", "locations_derived" }

-----------------------------------------------------------------------------
(* The field normaliser as a state machine: one call per step *)

InitField ==
    /\ job_data \in FieldJobs
    /\ field_name = "title"
    /\ field_value = NotCalled
    /\ model = "None"
    /\ backend = TRUE
    /\ sim_call = NotCalled
    /\ cv_data = [k \in {} |-> None]
    /\ job_offers = << >>
    /\ call = NotCalled
    /\ baseline = NotCalled
    /\ applications_log = << >>
    /\ groq_service = "None"
    /\ threads = << >>

GetJobField(name) ==
    /\ field_name' = name
    /\ field_value' = get_job_field(job_data, name)
    /\ UNCHANGED <<job_data, nlpVars, matchVars, appVars>>

NextField == \E name \in FieldNames : GetJobField(name)

SpecField == InitField /\ [][NextField]_vars
-----------------------------------------------------------------------------
(* The similarity engine as a state machine: one call per step *)

Texts ==
    { << >>,
      <<" ", "\n">>,
      <<"Python", " ", "SQL">>,
      <<" ", "python", " ", " ", "sql", "\n">>,
      <<"SQL", " ", "Python", " ", "Docker">>,
      <<"Python", ",", " ", "SQL">>,
      <<"Data", " ", "Engineer">>,
      <<"Docker">> }

InitSim ==
    /\ job_data = [k \in {} |-> None]
    /\ field_name = "title"
    /\ field_value = NotCalled
    /\ model = "None"
    /\ backend \in BOOLEAN
    /\ sim_call = NotCalled
    /\ cv_data = [k \in {} |-> None]
    /\ job_offers = << >>
    /\ call = NotCalled
    /\ baseline = NotCalled
    /\ applications_log = << >>
    /\ groq_service = "None"
    /\ threads = << >>

\* nlp_service.compute_similarity(text1, text2), the lazy load of its first call
\* included
ComputeSimilarity(text1, text2) ==
    /\ model' = LoadModel(model, backend)
    /\ sim_call' = [text1 |-> text1, text2 |-> text2,
                    value |-> compute_similarity(model', text1, text2)]
    /\ UNCHANGED <<backend, fieldVars, matchVars, appVars>>

\* the environment: the sentence transformer becomes loadable or stops being so
BackendChanges ==
    /\ backend' = ~backend
    /\ UNCHANGED <<model, sim_call, fieldVars, matchVars, appVars>>

NextSim ==
    \/ \E text1 \in Texts, text2 \in Texts : ComputeSimilarity(text1, text2)
    \/ BackendChanges

SpecSim == InitSim /\ [][NextSim]_vars

-----------------------------------------------------------------------------
(* Scoring one job: calculate_match_score, and the agent's calls for one job *)

InitScore ==
    /\ job_data \in JobPool
    /\ field_name = "title"
    /\ field_value = NotCalled
    /\ model = "None"
    /\ backend \in BOOLEAN
    /\ sim_call = NotCalled
    /\ cv_data \in Resumes
    /\ job_offers = <<job_data>>
    /\ call = NotCalled
    /\ baseline = NotCalled
    /\ applications_log = << >>
    /\ groq_service = "None"
    /\ threads = << >>

\* calculate_match_score(cv_data, job_data, similarity_score)
CalculateMatchScore(similarity_score) ==
    /\ call' = [op |-> "calculate_match_score", similarity |-> similarity_score,
                result |-> calculate_match_score(cv_data, job_data, similarity_score)]
    /\ UNCHANGED <<fieldVars, nlpVars, cv_data, job_offers, baseline, appVars>>

\* matching_agent.match_cv_with_jobs(cv_data, job_offers, top_n)
MatchCvWithJobs(top_n) ==
    /\ model' = LoadModel(model, backend)
    /\ call' = [op |-> "match_cv_with_jobs", top_n |-> top_n,
                result |-> match_cv_with_jobs(model', cv_data, job_offers, top_n),
                again |-> baseline # NotCalled /\ baseline.top_n = top_n]
    /\ baseline' = IF baseline = NotCalled THEN call' ELSE baseline
    /\ job_offers' = OffersAfterMatch(model', cv_data, job_offers)
    /\ UNCHANGED <<fieldVars, backend, sim_call, cv_data, appVars>>

\* matching_agent.rank_jobs(cv_data, job_offers)
RankJobs ==
    /\ model' = LoadModel(model, backend)
    /\ call' = [op |-> "rank_jobs", result |-> rank_jobs(model', cv_data, job_offers)]
    /\ job_offers' = OffersAfterMatch(model', cv_data, job_offers)
    /\ UNCHANGED <<fieldVars, backend, sim_call, cv_data, baseline, appVars>>

\* matching_agent.explain_match(cv_data, job_offers[i])
ExplainMatch(i) ==
    /\ model' = LoadModel(model, backend)
    /\ call' = [op |-> "explain_match", job |-> i,
                result |-> explain_match(model', cv_data, job_offers[i])]
    /\ UNCHANGED <<fieldVars, backend, sim_call, cv_data, job_offers, baseline, appVars>>

NextScore ==
    \/ \E similarity_score \in SimGrid : CalculateMatchScore(similarity_score)
    \/ MatchCvWithJobs(1)
    \/ ExplainMatch(1)

SpecScore == InitScore /\ [][NextScore]_vars

-----------------------------------------------------------------------------
(* Ranking job lists: the matching agent as a state machine *)

Init ==
    /\ job_data = [k \in {} |-> None]
    /\ field_name = "title"
    /\ field_value = NotCalled
    /\ model = "None"
    /\ backend \in BOOLEAN
    /\ sim_call = NotCalled
    /\ cv_data \in Resumes
    /\ job_offers \in JobLists
    /\ call = NotCalled
    /\ baseline = NotCalled
    /\ applications_log = << >>
    /\ groq_service = "None"
    /\ threads = << >>

Next ==
    \/ \E top_n \in TopNs : MatchCvWithJobs(top_n)
    \/ RankJobs
    \/ \E i \in 1..Len(job_offers) : ExplainMatch(i)
    \/ BackendChanges

Spec == Init /\ [][Next]_vars

-----------------------------------------------------------------------------
(* Properties of the field normaliser, checked under SpecField *)

FieldCalled == field_value # NotCalled

\* the dict without one key
DropKey(d, key) == [k \in (DOMAIN d) \ {key} |-> d[k]]

\* a value that is null (or absent), the empty string or a whitespace-only string
IsBlankValue(value) ==
    \/ value.t = "none"
    \/ value.t = "str" /\ \A i \in 1..Len(value.v) : value.v[i] \in Whitespace

CompanyBlankOrgAcme ==
    [k \in {"company", "organization"} |->
        IF k = "company" THEN PyStr(<< >>) ELSE PyStr(<<"Acme">>)]

\* C8: get_job_field always returns a string; with candidates [legacy, current] a
\* legacy value that is null, empty or whitespace-only falls through, so the result
\* is the one the record gives without its legacy field (company = "" and
\* organization = "Acme" gives "Acme"); with neither field present the result is "".
C8_FallThrough ==
    FieldCalled =>
        LET fields == FieldMapping(field_name)
        IN /\ field_value.t = "str"
           /\ (Len(fields) = 2 /\ IsBlankValue(DictGet(job_data, fields[1])))
                 => field_value = get_job_field(DropKey(job_data, fields[1]), fields[2])
           /\ (job_data = CompanyBlankOrgAcme /\ field_name = "company")
                 => field_value = PyStr(<<"Acme">>)
           /\ (\A i \in 1..Len(fields) : fields[i] \notin DOMAIN job_data)
                 => field_value = PyStr(<< >>)

C8_Witness ==
    /\ FieldCalled
    /\ field_name = "company"
    /\ "company" \in DOMAIN job_data
    /\ job_data["company"] = PyStr(<<" ">>)
    /\ DictGet(job_data, "organization") = PyStr(<<"Acme">>)
    /\ field_value = PyStr(<<"Acme">>)

\* the normalised value of one physical field: list entries filtered and joined,
\* booleans as Yes/No, anything else stringified and trimmed, "" for null or absent
NormalisedValue(value) ==
    CASE value.t = "none" -> << >>
      [] value.t = "list" ->
            JoinStr(<<",", " ">>,
                    SelectSeq([i \in 1..Len(value.v) |->
                                  IF value.v[i].t = "none" THEN << >> ELSE Str(value.v[i])],
                              LAMBDA e : Strip(e) # << >>))
      [] value.t = "bool" -> IF value.v THEN <<"Yes">> ELSE <<"No">>
      [] OTHER -> Strip(Str(value))

RECURSIVE FirstNonEmpty(_, _)
\* the normalised value of the first candidate whose normalised value is non-empty
FirstNonEmpty(job, fields) ==
    IF fields = << >> THEN << >>
    ELSE IF NormalisedValue(DictGet(job, Head(fields))) # << >>
         THEN NormalisedValue(DictGet(job, Head(fields)))
         ELSE FirstNonEmpty(job, Tail(fields))

\* C9: get_job_field returns the normalised value of the first candidate field whose
\* normalised value is non-empty, and "" only when no candidate yields one, for
\* string, list and boolean candidates alike.
C9_FirstNonEmptyCandidate ==
    FieldCalled =>
        field_value = PyStr(FirstNonEmpty(job_data, FieldMapping(field_name)))

RECURSIVE SelectedValue(_, _)
\* the value of the first candidate field that is present and not null
SelectedValue(job, fields) ==
    IF fields = << >> THEN None
    ELSE IF DictGet(job, Head(fields)).t # "none" THEN DictGet(job, Head(fields))
         ELSE SelectedValue(job, Tail(fields))

\* the entries of a list that are neither null nor empty after str() and strip()
KeptEntries(l) ==
    SelectSeq(l, LAMBDA v : v.t # "none" /\ Strip(Str(v)) # << >>)

ParisNoneEmpty ==
    [k \in {"locations_derived"} |-> PyList(<<PyStr(<<"Paris">>), None, PyStr(<< >>)>>)]

\* C10: when the selected value is a list, the result is its entries that are not
\* null and not empty after stringification and trimming, stringified, in their
\* original order and joined with ", " (["Paris", None, ""] gives "Paris").
C10_ListJoin ==
    FieldCalled =>
        LET value == SelectedValue(job_data, FieldMapping(field_name))
        IN /\ value.t = "list" =>
                 field_value =
                     PyStr(JoinStr(<<",", " ">>,
                                   [i \in 1..Len(KeptEntries(value.v)) |->
                                       Str(KeptEntries(value.v)[i])]))
           /\ (job_data = ParisNoneEmpty /\ field_name = "location")
                 => field_value = PyStr(<<"Paris">>)

C10_Witness ==
    /\ FieldCalled
    /\ field_name = "location"
    /\ job_data = [k \in {"locations_derived"} |->
                      PyList(<<PyStr(<<" ", "Lyon">>), None, PyStr(<<" ">>),
                               PyStr(<<"Paris">>)>>)]
    /\ field_value = PyStr(<<" ", "Lyon", ",", " ", "Paris">>)

-----------------------------------------------------------------------------
(* Properties of the similarity engine, checked under SpecSim *)

SimCalled == sim_call # NotCalled

\* the set of lowercased whitespace tokens of a text
TokenSet(text) == Range(Split(Lower(text)))

\* |A \cap B| / sqrt(|A| * |B|) in units of 1 / SimScale, 0 when a set is empty
BagOfWordsCosine(A, B) ==
    IF A = {} \/ B = {} THEN 0
    ELSE LET n == Cardinality(A \cap B)
         IN CHOOSE k \in 0..SimScale :
               /\ k * k * Cardinality(A) * Cardinality(B) <= n * n * SimScale * SimScale
               /\ \/ k = SimScale
                  \/ (k + 1) * (k + 1) * Cardinality(A) * Cardinality(B)
                        > n * n * SimScale * SimScale

\* C6: compute_similarity(a, b) = compute_similarity(b, a) on either path, and on
\* the bag-of-words path both are |A \cap B| / sqrt(|A| * |B|) over the sets of
\* lowercased whitespace tokens.
C6_Symmetry ==
    SimCalled =>
        /\ sim_call.value = compute_similarity(model, sim_call.text2, sim_call.text1)
        /\ model = "False" =>
              sim_call.value = BagOfWordsCosine(TokenSet(sim_call.text1),
                                                TokenSet(sim_call.text2))

C6_Witness ==
    /\ SimCalled
    /\ model = "False"
    /\ sim_call.text1 = <<"Python", " ", "SQL">>
    /\ sim_call.text2 = <<"SQL", " ", "Python", " ", "Docker">>
    /\ sim_call.value > 0
    /\ sim_call.value < SimScale

\* C7: on the bag-of-words path compute_similarity returns exactly 0 when a text is
\* empty or whitespace-only or the texts share no lowercased token, and its result
\* is always a number in [0, 1], never the outcome of a division by a zero norm.
C7_DegradedZero ==
    (SimCalled /\ model = "False") =>
        /\ sim_call.value \in 0..SimScale
        /\ (TokenSet(sim_call.text1) \cap TokenSet(sim_call.text2) = {})
              => sim_call.value = 0

C7_Witness ==
    /\ SimCalled
    /\ model = "False"
    /\ sim_call.text1 = <<" ", "\n">>
    /\ sim_call.text2 = <<"Docker">>
    /\ sim_call.value = 0

-----------------------------------------------------------------------------
(* Properties of the scorer, checked under SpecScore *)

CallIs(op) == call # NotCalled /\ call.op = op /\ call.result.ok

\* the job's skill tokens: the lowercased whitespace-separated words of more than 3
\* characters of its requirement strings
JobSkillTokens(job) ==
    IF "requirements" \notin DOMAIN job THEN {}
    ELSE { Lower(w) : w \in { x \in UNION { Range(Split(job["requirements"].v[i].v)) :
                                             i \in 1..Len(job["requirements"].v) } :
                              StrLen(x) > 3 } }

\* the lowercased resume skills
ResumeSkills(cv) == { Lower(cv["skills"].v[i].v) : i \in 1..Len(cv["skills"].v) }

\* min(100, 70 * sim + 20 * ratio + 10) as a numerator over SimScale * max(|tokens|, 1)
\* for sim = similarity / SimScale and ratio = |skills \cap tokens| / max(|tokens|, 1)
ExpectedScore(cv, job, similarity) ==
    LET tokens == JobSkillTokens(job)
        n == IF tokens = {} THEN 1 ELSE Cardinality(tokens)
        common == IF ResumeSkills(cv) = {} \/ tokens = {} THEN 0
                  ELSE Cardinality(ResumeSkills(cv) \cap tokens)
        total == 70 * similarity * n + 20 * common * SimScale + 10 * SimScale * n
    IN [num |-> IF total > 100 * SimScale * n THEN 100 * SimScale * n ELSE total,
        den |-> SimScale * n]

\* the fraction f as a numerator over den, a multiple of f.den
Over(f, den) == f.num * (den \div f.den)

\* C1: calculate_match_score returns a value in [0, 100] for every resume, job and
\* similarity in [0, 1], and every match_score attached by match_cv_with_jobs or
\* returned by explain_match lies in [0, 100].
C1_ScoreBounds ==
    /\ CallIs("calculate_match_score") =>
          /\ call.result.v.num >= 0
          /\ call.result.v.num <= 100 * call.result.v.den
    /\ CallIs("match_cv_with_jobs") =>
          \A i \in 1..Len(call.result.v) :
              /\ call.result.v[i]["match_score"].c >= 0
              /\ call.result.v[i]["match_score"].c <= 100 * 100
    /\ CallIs("explain_match") =>
          /\ call.result.v.match_score.c >= 0
          /\ call.result.v.match_score.c <= 100 * 100

C1_Witness ==
    /\ CallIs("calculate_match_score")
    /\ call.similarity = SimScale
    /\ cv_data = ResumeDev
    /\ job_data = JobPython
    /\ call.result.v.num = 100 * call.result.v.den

\* C2: the score is min(100, 70 * sim + 20 * ratio + 10), where ratio is the share of
\* the job's skill tokens found among the lowercased resume skills (0 when either set
\* is empty), and for match_cv_with_jobs sim is the similarity of the resume summary
\* and the job summary.
C2_ScoreFormula ==
    /\ CallIs("calculate_match_score") =>
          LET expected == ExpectedScore(cv_data, job_data, call.similarity)
          IN Over(call.result.v, expected.den) = expected.num
    /\ (CallIs("match_cv_with_jobs") /\ call.result.v # << >>) =>
          LET sim == compute_similarity(model, CvSummary(cv_data),
                                        create_job_summary(job_data))
          IN call.result.v[1]["match_score"]
                = PyFloat(Round2(ExpectedScore(cv_data, job_data, sim)))

C2_Witness ==
    /\ CallIs("calculate_match_score")
    /\ cv_data = ResumeJane
    /\ job_data = JobData
    /\ call.similarity = SimStep
    /\ Cardinality(JobSkillTokens(job_data)) = 4
    /\ Cardinality(ResumeSkills(cv_data) \cap JobSkillTokens(job_data)) = 1
    /\ 4 * SimScale * call.result.v.num
          = call.result.v.den * (70 * 4 * SimStep + 20 * SimScale + 10 * 4 * SimScale)

-----------------------------------------------------------------------------
(* Properties of the ranking, checked under Spec *)

\* the job with its scores, as the loop of match_cv_with_jobs builds it
Scored(job) == ScoreJobOf(model, cv_data, job).v

\* the input jobs a ranking leaves out
LeftOut(ranking) ==
    { i \in 1..Len(job_offers) : \A k \in 1..Len(ranking) : ranking[k] # Scored(job_offers[i]) }

\* C3: match_cv_with_jobs returns jobs in non-increasing order of match_score, every
\* returned job scores at least as high as every input job left out, and each
\* returned element is one input job extended with its scores.
C3_RankingOrder ==
    CallIs("match_cv_with_jobs") =>
        LET ranking == call.result.v
        IN /\ \A k \in 1..(Len(ranking) - 1) :
                 ranking[k]["match_score"].c >= ranking[k + 1]["match_score"].c
           /\ \A k \in 1..Len(ranking) : \A i \in LeftOut(ranking) :
                 ranking[k]["match_score"].c >= Scored(job_offers[i])["match_score"].c
           /\ \A k \in 1..Len(ranking) : \E i \in 1..Len(job_offers) :
                 /\ ranking[k] = Scored(job_offers[i])
                 /\ \A key \in DOMAIN job_offers[i] : ranking[k][key] = job_offers[i][key]
                 /\ DOMAIN ranking[k]
                       = (DOMAIN job_offers[i]) \cup {"match_score", "similarity_score"}
           /\ \A k, l \in 1..Len(ranking) : k # l => ranking[k] # ranking[l]

C3_Witness ==
    /\ CallIs("match_cv_with_jobs")
    /\ call.top_n = 1
    /\ Len(job_offers) = 2
    /\ Len(call.result.v) = 1
    /\ call.result.v[1]["id"] = job_offers[2]["id"]
    /\ call.result.v[1]["match_score"].c > Scored(job_offers[1])["match_score"].c

Min(a, b) == IF a < b THEN a ELSE b

\* C4 as stated: for every top_n the ranking has exactly min(top_n, len(jobs))
\* elements, and rank_jobs returns exactly len(jobs) elements.
C4_LengthAnyTopN ==
    /\ CallIs("match_cv_with_jobs") =>
          Len(call.result.v) = Min(call.top_n, Len(job_offers))
    /\ CallIs("rank_jobs") => Len(call.result.v) = Len(job_offers)

\* C4 amended: for every top_n >= 0 the ranking has exactly min(top_n, len(jobs))
\* elements, and rank_jobs returns exactly len(jobs) elements.
C4_LengthNonNegativeTopN ==
    /\ (CallIs("match_cv_with_jobs") /\ call.top_n >= 0) =>
          Len(call.result.v) = Min(call.top_n, Len(job_offers))
    /\ CallIs("rank_jobs") => Len(call.result.v) = Len(job_offers)

C4_Witness ==
    /\ CallIs("match_cv_with_jobs")
    /\ call.top_n = 1
    /\ Len(job_offers) = 2
    /\ Len(call.result.v) = 1

\* C5: a call of match_cv_with_jobs with the resume, job list and top_n of an earlier
\* call returns the same ordered list with the same scores, whatever was called in
\* between.
C5_Deterministic ==
    (call # NotCalled /\ call.op = "match_cv_with_jobs" /\ call.again) =>
        call.result = baseline.result

C5_Witness ==
    /\ CallIs("match_cv_with_jobs")
    /\ call.again
    /\ model = "False"
    /\ backend
    /\ Len(call.result.v) = 2
    /\ call.result.v[1]["match_score"].c > call.result.v[2]["match_score"].c

-----------------------------------------------------------------------------
(* Properties of explain_match, checked under SpecScore *)

\* the lowercased whitespace-separated words of the job's requirement strings
RequirementTokens(job) ==
    IF "requirements" \notin DOMAIN job THEN {}
    ELSE { Lower(w) : w \in UNION { Range(Split(job["requirements"].v[i].v)) :
                                       i \in 1..Len(job["requirements"].v) } }

\* C11: for the resume with skills "Python" and "SQL" and the job with requirements
\* "Python experience required" and "SQL knowledge", explain_match gives a score of
\* at least 10 and matching_skills holding both "python" and "sql"; in general
\* matching_skills is the lowercased resume skills that are words of the job's
\* requirement strings.
C11_MatchingSkills ==
    CallIs("explain_match") =>
        /\ Range(call.result.v.matching_skills)
              = ResumeSkills(cv_data) \cap RequirementTokens(job_data)
        /\ (cv_data = ResumeJane /\ job_data = JobData) =>
              /\ call.result.v.match_score.c >= 10 * 100
              /\ { <<"python">>, <<"sql">> } \subseteq Range(call.result.v.matching_skills)

-----------------------------------------------------------------------------
(* explain_match for each similarity the NLP service can return *)

\* a record of the legacy scheme with three requirement words
JobServices ==
    [id |-> PyInt(6), title |-> PyStr(Words(<<"Backend", "Developer">>)),
     requirements |-> PyList(<<PyStr(Words(<<"python", "docker", "services">>))>>)]

\* the values compute_similarity can return: every k / SimScale of [0, 1]
Similarities == 0..SimScale

InitExplain ==
    /\ job_data \in JobPool \cup {JobServices}
    /\ field_name = "title"
    /\ field_value = NotCalled
    /\ model = "None"
    /\ backend = TRUE
    /\ sim_call = NotCalled
    /\ cv_data \in Resumes
    /\ job_offers = <<job_data>>
    /\ call = NotCalled
    /\ baseline = NotCalled
    /\ applications_log = << >>
    /\ groq_service = "None"
    /\ threads = << >>

\* matching_agent.explain_match(cv_data, job_data) when the sentence transformer
\* gives the two summaries the similarity similarity_score / SimScale; the
\* transformer is a function of the texts, so a later call gets the same similarity
ExplainMatchAt(similarity_score) ==
    /\ sim_call # NotCalled => sim_call.value = similarity_score
    /\ model' = LoadModel(model, backend)
    /\ model' = "Loaded"
    /\ sim_call' = [text1 |-> CvSummary(cv_data), text2 |-> create_job_summary(job_data),
                    value |-> similarity_score]
    /\ call' = [op |-> "explain_match", job |-> 1,
                result |-> ExplainAt(cv_data, job_data, similarity_score)]
    /\ UNCHANGED <<fieldVars, backend, cv_data, job_offers, baseline, appVars>>

NextExplain == \E similarity_score \in Similarities : ExplainMatchAt(similarity_score)

SpecExplain == InitExplain /\ [][NextExplain]_vars

\* the tier word of an explanation: "This is a <tier> match ..."
TierWord(explanation) == explanation[7]

\* the tier of a score given in hundredths, with inclusive lower bounds
TierOf(hundredths) ==
    IF hundredths >= 80 * 100 THEN "excellent"
    ELSE IF hundredths >= 60 * 100 THEN "good"
    ELSE IF hundredths >= 40 * 100 THEN "moderate"
    ELSE "low"

\* C12: in the result of explain_match the tier word of the explanation is the tier
\* of the match_score of the same result: "excellent" from 80, "good" from 60,
\* "moderate" from 40, "low" below.
C12_TierOfReturnedScore ==
    CallIs("explain_match") =>
        TierWord(call.result.v.explanation) = TierOf(call.result.v.match_score.c)

-----------------------------------------------------------------------------
(* Properties of the ranking loop, checked under Spec *)

\* C13: match_cv_with_jobs never raises: for every resume and every list of job
\* records, with any field absent or null, the call returns and every returned job
\* carries a numeric match_score.
C13_NeverRaises ==
    (call # NotCalled /\ call.op = "match_cv_with_jobs") =>
        /\ call.result.ok
        /\ \A i \in 1..Len(call.result.v) : call.result.v[i]["match_score"].t = "float"

-----------------------------------------------------------------------------
(* Properties of the model load state, checked under SpecSim *)

\* C14: self.model leaves None in the step of the first similarity call, for the
\* loaded model or for False, and never changes again; once the load has failed
\* every compute_similarity returns the bag-of-words similarity, also when the
\* sentence transformer has become available.
C14_LoadOnce ==
    /\ [](model = "None" <=> sim_call = NotCalled)
    /\ [][model' # model => (model = "None" /\ model' \in {"Loaded", "False"})]_vars
    /\ []((SimCalled /\ model = "False") =>
            sim_call.value = BagOfWordsCosine(TokenSet(sim_call.text1),
                                              TokenSet(sim_call.text2)))

C14_Witness ==
    /\ SimCalled
    /\ model = "False"
    /\ backend
    /\ sim_call.text1 = <<"Python", " ", "SQL">>
    /\ sim_call.text2 = <<"Docker">>
    /\ sim_call.value = 0
    /\ compute_similarity("Loaded", sim_call.text1, sim_call.text2) > 0

-----------------------------------------------------------------------------
(* Properties of the job skill tokens, checked under SpecScore *)

\* the description of a job record in either scheme
DescriptionOf(job) ==
    IF "description" \in DOMAIN job THEN job["description"].v
    ELSE IF "description_text" \in DOMAIN job THEN job["description_text"].v
    ELSE << >>

\* the lowercased resume skills that are words of the job's description
SkillsInDescription(cv, job) ==
    ResumeSkills(cv) \cap { Lower(w) : w \in Range(Split(DescriptionOf(job))) }

\* C19: for a job record without a requirements field whose description holds
\* resume skills, those skills are in explain_match's matching_skills and the
\* score of calculate_match_score has a positive skill-overlap term.
C19_SkillsFromDescription ==
    ("requirements" \notin DOMAIN job_data /\ SkillsInDescription(cv_data, job_data) # {}) =>
        /\ CallIs("explain_match") =>
              SkillsInDescription(cv_data, job_data)
                  \subseteq Range(call.result.v.matching_skills)
        /\ (CallIs("calculate_match_score") /\ call.similarity = 0) =>
              call.result.v.num > 10 * call.result.v.den

-----------------------------------------------------------------------------
(* services/google_oauth_service.py and services/email_service.py: send_email *)

PreviewLen == 100

\* get_connection_status for the state of the saved credentials file: connected
\* when the file exists and holds JSON, not connected when it is absent or reading
\* it raises
get_connection_status(credentials_file) ==
    [connected |-> credentials_file = "valid"]

\* the parameters send_email_via_gmail declares
GmailParameters == {"recipient_email", "subject", "body"}

\* the keyword arguments send_email passes to send_email_via_gmail
GmailKeywords == {"recipient_email", "subject", "body", "attachments"}

\* the body of send_email_via_gmail: no credentials, a send the Gmail API accepts,
\* or an error of the API, each turned into a result dict
GmailSend(env, recipient_email) ==
    IF env.credentials_file # "valid"
    THEN [success |-> FALSE,
          message |-> <<"Gmail not connected. Please connect your Gmail account first.">>]
    ELSE IF env.gmail_api = "sent"
    THEN [success |-> TRUE, message |-> <<"Email sent successfully to ", recipient_email>>,
          message_id |-> "id"]
    ELSE IF env.gmail_api = "HttpError"
    THEN [success |-> FALSE, message |-> <<"Failed to send email via Gmail API">>]
    ELSE [success |-> FALSE, message |-> <<"Error sending email">>]

\* send_email_via_gmail called with the keyword arguments keywords: a keyword the
\* function does not declare raises TypeError before its body runs
send_email_via_gmail(env, keywords, recipient_email) ==
    IF keywords \subseteq GmailParameters THEN Returned(GmailSend(env, recipient_email))
    ELSE Raised("TypeError")

\* os.path.basename of each attachment; attachments is None or a list of paths,
\* a path being the sequence of its components
AttachmentNames(attachments) ==
    IF ~Truthy(attachments) THEN << >>
    ELSE [i \in 1..Len(attachments.v) |-> <<attachments.v[i][Len(attachments.v[i])]>>]

\* the dict both except clauses of send_email return
SendFailed ==
    [success |-> FALSE,
     message |-> <<"Failed to send email. Please check your email configuration.">>]

\* send_email from the credentials test on: the simulated send without SMTP
\* credentials, else the message and the SMTP session, env.smtp being "sent" or the
\* exception they raise, which the except clauses catch
SmtpPath(env, recipient_email, subject, body, attachments) ==
    IF env.sender_email = << >> \/ env.sender_password = << >>
    THEN [success |-> TRUE,
          message |-> <<"Email simulated (no credentials set). Would send to: ",
                        recipient_email>>
                      \o (IF Truthy(attachments)
                          THEN <<", Attachments: ">>
                                   \o JoinStr(<<", ">>, AttachmentNames(attachments))
                          ELSE << >>),
          details |-> [to |-> recipient_email, subject |-> subject,
                       preview |-> IF Len(body) > PreviewLen
                                   THEN SubSeq(body, 1, PreviewLen) \o <<".", ".", ".">>
                                   ELSE body,
                       attachments |-> AttachmentNames(attachments)]]
    ELSE IF env.smtp = "sent"
    THEN [success |-> TRUE, message |-> <<"Email sent successfully to ", recipient_email>>]
    ELSE SendFailed

\* send_email after the Gmail call gave gmail: an exception goes to the except
\* clause, a success is returned, a failure dict falls through to SMTP
AfterGmail(gmail, env, recipient_email, subject, body, attachments) ==
    IF ~gmail.ok THEN SendFailed
    ELSE IF gmail.v.success THEN gmail.v
    ELSE SmtpPath(env, recipient_email, subject, body, attachments)

\* EmailService.send_email in the environment env: the state of the Gmail
\* credentials file, the answer of the Gmail API, the SMTP credentials and the
\* answer of the SMTP server
send_email(env, recipient_email, subject, body, attachments) ==
    IF get_connection_status(env.credentials_file).connected
    THEN AfterGmail(send_email_via_gmail(env, GmailKeywords, recipient_email),
                    env, recipient_email, subject, body, attachments)
    ELSE SmtpPath(env, recipient_email, subject, body, attachments)

\* the environments of send_email
MailEnvs ==
    [credentials_file : {"absent", "valid", "unreadable"},
     gmail_api : {"sent", "HttpError", "Exception"},
     sender_email : {<< >>, <<"me@x.com">>},
     sender_password : {<< >>, <<"secret">>},
     smtp : {"sent", "SMTPException", "OSError"}]

AttachmentLists ==
    { None, PyList(<< >>), PyList(<< <<"uploads", "cv.pdf">>, <<"letter.pdf">> >>) }

InitMail ==
    /\ job_data = [k \in {} |-> None]
    /\ field_name = "title"
    /\ field_value = NotCalled
    /\ model = "None"
    /\ backend = TRUE
    /\ sim_call = NotCalled
    /\ cv_data = [k \in {} |-> None]
    /\ job_offers = << >>
    /\ call = NotCalled
    /\ baseline = NotCalled
    /\ applications_log = << >>
    /\ groq_service = "None"
    /\ threads = << >>

\* email_service.send_email(recipient_email, subject, body, attachments=attachments)
\* in the environment env
SendEmail(env, attachments) ==
    /\ call' = [op |-> "send_email", env |-> env, attachments |-> attachments,
                result |-> Returned(send_email(env, <<"hr@acme.com">>, <<"Application">>,
                                               <<"H", "i">>, attachments))]
    /\ UNCHANGED <<fieldVars, nlpVars, cv_data, job_offers, baseline, appVars>>

NextMail == \E env \in MailEnvs, attachments \in AttachmentLists : SendEmail(env, attachments)

SpecMail == InitMail /\ [][NextMail]_vars

-----------------------------------------------------------------------------
(* Properties of send_email, checked under SpecMail *)

\* the outcome of the SMTP path: a simulated send without both credentials, else
\* the outcome of the SMTP session
SmtpOutcome(env) ==
    IF env.sender_email = << >> \/ env.sender_password = << >> THEN "simulated"
    ELSE IF env.smtp = "sent" THEN "sent" ELSE "failed"

\* the outcome a result dict of send_email reports
OutcomeOf(result) ==
    IF ~result.success THEN "failed"
    ELSE IF "details" \in DOMAIN result THEN "simulated"
    ELSE "sent"

\* C20: with a Gmail account connected send_email returns the Gmail success, and
\* when the Gmail send does not succeed it returns the outcome of the SMTP path (the
\* simulated send without SMTP credentials); without a connected account it
\* returns the outcome of the SMTP path.
C20_GmailThenSmtp ==
    CallIs("send_email") =>
        LET env == call.env
            result == call.result.v
        IN IF env.credentials_file = "valid" /\ env.gmail_api = "sent"
           THEN result.success /\ "message_id" \in DOMAIN result
           ELSE OutcomeOf(result) = SmtpOutcome(env)

-----------------------------------------------------------------------------
(* Regular expressions of agents/cv_analysis_agent.py.  The text of a CV is *)
(* read character by character: every atom of a CV text is one character.  *)
(* A pattern is a sequence of steps, matched as Python's re module matches  *)
(* it: from left to right, each step taking its first choice and falling    *)
(* back to the next one when the rest of the pattern does not match.        *)

DigitChars == Range(Chars("0123456789"))

\* \w
WordChars == Letters \cup DigitChars \cup {"_"}

\* the characters of the texts of the model: what "." matches under re.DOTALL
Alphabet == WordChars \cup Whitespace \cup Range(Chars(",.:;-@&/+()%|#"))

\* the least element of a set of numbers
Least(S) == CHOOSE x \in S : \A y \in S : x <= y

\* sub in s
Contains(sub, s) == \E i \in 1..(Len(s) - Len(sub) + 1) : SubSeq(s, i, i + Len(sub) - 1) = sub

\* a character class repeated min to max times, greedily
Rep(chars, min, max) ==
    [kind |-> "chars", chars |-> chars, min |-> min, max |-> max, bounded |-> TRUE,
     lazy |-> FALSE]

\* a character class repeated min times or more, greedily
AtLeast(chars, min) ==
    [kind |-> "chars", chars |-> chars, min |-> min, max |-> min, bounded |-> FALSE,
     lazy |-> FALSE]

\* a character class followed by "+"
Plus(chars) == AtLeast(chars, 1)

\* a character class followed by "+?"
LazyPlus(chars) ==
    [kind |-> "chars", chars |-> chars, min |-> 1, max |-> 1, bounded |-> FALSE,
     lazy |-> TRUE]

\* one character of a class
One(chars) == Rep(chars, 1, 1)

\* \b
WordBoundary == [kind |-> "boundary"]

\* a group of alternatives (?:a|b|...), each a fixed sequence of character
\* classes, or "$" when atEnd is set
OneOf(alts) == [kind |-> "alts", alts |-> alts]
Lit(word) == [sets |-> [i \in 1..Len(word) |-> {word[i]}], atEnd |-> FALSE]
Classes(sets) == [sets |-> sets, atEnd |-> FALSE]
EndOfText == [sets |-> << >>, atEnd |-> TRUE]

\* a character class under re.IGNORECASE
AnyCase(chars) == { c \in Alphabet : \E d \in chars : LowerAtom(c) = LowerAtom(d) }

\* a literal word under re.IGNORECASE
LitAnyCase(word) == [sets |-> [i \in 1..Len(word) |-> AnyCase({word[i]})], atEnd |-> FALSE]

Fail == [ok |-> FALSE, ends |-> << >>]

\* the match of a step ending before position end, followed by the match rest of
\* the steps after it
Extend(end, rest) == IF rest.ok THEN [ok |-> TRUE, ends |-> <<end>> \o rest.ends] ELSE Fail

\* the first choice when it matches, else the next one
FirstOk(first, next) == IF first.ok THEN first ELSE next

\* the positions from i on, and the one after the text, where a run of characters
\* of the class ends
RunStops(chars, s, i) == { p \in i..(Len(s) + 1) : p > Len(s) \/ s[p] \notin chars }

\* the number of characters of the class at the positions from i on, max at most
\* when the repetition is bounded
RunLength(node, s, i) ==
    IF node.bounded
    THEN Min(Least(RunStops(node.chars, s, i)) - i, node.max)
    ELSE Least(RunStops(node.chars, s, i)) - i

\* \b at position i: exactly one of the characters before and after is a word
\* character
IsBoundary(s, i) ==
    (i > 1 /\ s[i - 1] \in WordChars) # (i <= Len(s) /\ s[i] \in WordChars)

\* "$" at position i: the end of the text, or the newline that ends it
AtEnd(s, i) == i = Len(s) + 1 \/ (i = Len(s) /\ s[i] = "\n")

\* one alternative at position i
AltMatches(alt, s, i) ==
    /\ i + Len(alt.sets) - 1 <= Len(s)
    /\ \A j \in 1..Len(alt.sets) : s[i + j - 1] \in alt.sets[j]
    /\ alt.atEnd => AtEnd(s, i + Len(alt.sets))

RECURSIVE MatchFrom(_, _, _, _)
RECURSIVE TryLonger(_, _, _, _, _)
RECURSIVE TryShorter(_, _, _, _, _)
RECURSIVE TryAlts(_, _, _, _, _)

\* the steps k.. of the pattern matched at position i of s: ok, and the position
\* after each step
MatchFrom(pat, k, s, i) ==
    IF k > Len(pat) THEN [ok |-> TRUE, ends |-> << >>]
    ELSE IF pat[k].kind = "boundary"
    THEN (IF IsBoundary(s, i) THEN Extend(i, MatchFrom(pat, k + 1, s, i)) ELSE Fail)
    ELSE IF pat[k].kind = "alts" THEN TryAlts(pat, k, s, i, 1)
    ELSE IF pat[k].lazy
    THEN TryLonger(pat, k, s, i,
                   { n \in pat[k].min..RunLength(pat[k], s, i) :
                       MatchFrom(pat, k + 1, s, i + n).ok })
    ELSE TryShorter(pat, k, s, i, RunLength(pat[k], s, i))

\* a lazy repetition: the least of the numbers of characters after which the rest
\* of the pattern matches
TryLonger(pat, k, s, i, lengths) ==
    IF lengths = {} THEN Fail
    ELSE Extend(i + Least(lengths), MatchFrom(pat, k + 1, s, i + Least(lengths)))

\* a greedy repetition: n characters, then fewer down to min
TryShorter(pat, k, s, i, n) ==
    IF n < pat[k].min THEN Fail
    ELSE FirstOk(Extend(i + n, MatchFrom(pat, k + 1, s, i + n)),
                 TryShorter(pat, k, s, i, n - 1))

\* the alternatives j.. of a group, in their order
TryAlts(pat, k, s, i, j) ==
    IF j > Len(pat[k].alts) THEN Fail
    ELSE IF AltMatches(pat[k].alts[j], s, i)
    THEN FirstOk(Extend(i + Len(pat[k].alts[j].sets),
                        MatchFrom(pat, k + 1, s, i + Len(pat[k].alts[j].sets))),
                 TryAlts(pat, k, s, i, j + 1))
    ELSE TryAlts(pat, k, s, i, j + 1)

\* a match found at position start: the position before its first step and the
\* position after each step
Found(start, m) == [start |-> start, ends |-> m.ends]

\* the position after the last step of a match
MatchEnd(m) == IF m.ends = << >> THEN m.start ELSE m.ends[Len(m.ends)]

\* the text of the steps from..to of a match
Group(s, m, from, to) ==
    SubSeq(s, IF from = 1 THEN m.start ELSE m.ends[from - 1], m.ends[to] - 1)

\* the positions of s where the pattern matches
MatchStarts(pat, s) == { i \in 1..(Len(s) + 1) : MatchFrom(pat, 1, s, i).ok }

RECURSIVE FindAllFrom(_, _, _)
RECURSIVE FindNext(_, _, _, _)

\* re.findall scanning the positions starts: the matches, from left to right, each
\* search resuming where the match before it ended
FindAllFrom(pat, s, starts) ==
    IF starts = {} THEN << >>
    ELSE FindNext(pat, s, starts, Found(Least(starts), MatchFrom(pat, 1, s, Least(starts))))

FindNext(pat, s, starts, m) ==
    <<m>> \o FindAllFrom(pat, s, { i \in starts : i >= MatchEnd(m) /\ i > m.start })

\* re.findall(pattern, s): the matches
FindAll(pat, s) == FindAllFrom(pat, s, MatchStarts(pat, s))

\* re.match(pattern, s): whether the pattern matches at the start of s
MatchesAtStart(pat, s) == MatchFrom(pat, 1, s, 1).ok

-----------------------------------------------------------------------------
(* agents/cv_analysis_agent.py: CVAnalysisAgent *)

NameLines == 5      \* lines[:5]
NameMaxLen == 50    \* len(line) < 50

RECURSIVE SplitAt(_, _, _)
\* the pieces of s from position i on, cuts being the positions of the separators
SplitAt(s, cuts, i) ==
    IF cuts = {} THEN <<SubSeq(s, i, Len(s))>>
    ELSE <<SubSeq(s, i, Least(cuts) - 1)>> \o SplitAt(s, cuts \ {Least(cuts)}, Least(cuts) + 1)

\* re.split of a character class, and str.split(sep) of one character: the pieces
\* of s between the characters of seps
SplitOn(seps, s) == SplitAt(s, { i \in 1..Len(s) : s[i] \in seps }, 1)

\* s[:n]
Prefix(s, n) == SubSeq(s, 1, IF Len(s) < n THEN Len(s) ELSE n)

\* r'^[A-Z][a-zA-Z\s]+$'
NamePattern ==
    <<One(UpperLetters), Plus(Letters \cup Whitespace), OneOf(<<EndOfText>>)>>

\* the test of one line of _extract_name, line being stripped
LooksLikeName(line) ==
    /\ line # << >>
    /\ Len(line) < NameMaxLen
    /\ ~Contains(<<"@">>, line)
    /\ MatchesAtStart(NamePattern, line)

RECURSIVE FirstName(_)
\* the loop of _extract_name over lines, and the final return ""
FirstName(lines) ==
    IF lines = << >> THEN << >>
    ELSE IF LooksLikeName(Strip(Head(lines))) THEN Strip(Head(lines))
    ELSE FirstName(Tail(lines))

\* _extract_name(text)
extract_name(text) == FirstName(Prefix(SplitOn({"\n"}, Strip(text)), NameLines))


\* r'\b[A-Za-z0-9._%+-]+@[A-Za-z0-9.-]+\.[A-Z|a-z]{2,}\b'
EmailPattern ==
    <<WordBoundary,
      Plus(Letters \cup DigitChars \cup Range(Chars("._%+-"))),
      One({"@"}),
      Plus(Letters \cup DigitChars \cup Range(Chars(".-"))),
      One({"."}),
      AtLeast(Letters \cup {"|"}, 2),
      WordBoundary>>

\* the whole text of a match
MatchText(s, m) == SubSeq(s, m.start, MatchEnd(m) - 1)

\* matches[0] if matches else None
FirstMatchText_NoneDefault(matches, s) ==
    IF matches = << >> THEN None ELSE MatchText(s, matches[1])

\* matches[0] if matches else "", for a pattern without groups
FirstMatchText(matches, s) == IF matches = << >> THEN << >> ELSE MatchText(s, matches[1])

\* _extract_email(text)
extract_email(text) == FirstMatchText(FindAll(EmailPattern, text), text)

\* [-.\s]?
PhoneSeparator == Rep({"-", "."} \cup Whitespace, 0, 1)

\* phone_patterns
PhonePatterns ==
    << <<Rep({"+"}, 0, 1), Rep(DigitChars, 1, 3), PhoneSeparator, Rep({"("}, 0, 1),
         Rep(DigitChars, 1, 4), Rep({")"}, 0, 1), PhoneSeparator, Rep(DigitChars, 1, 4),
         PhoneSeparator, Rep(DigitChars, 1, 9)>>,
       <<Rep(DigitChars, 10, 10)>>,
       <<One({"("}), Rep(DigitChars, 3, 3), One({")"}), Rep(Whitespace, 0, 1),
         Rep(DigitChars, 3, 3), One({"-"}), Rep(DigitChars, 4, 4)>> >>

RECURSIVE FirstPhone(_, _)
\* the loop of _extract_phone over the patterns, and the final return ""
FirstPhone(patterns, text) ==
    IF patterns = << >> THEN << >>
    ELSE IF FindAll(Head(patterns), text) # << >>
    THEN FirstMatchText(FindAll(Head(patterns), text), text)
    ELSE FirstPhone(Tail(patterns), text)

\* _extract_phone(text)
extract_phone(text) == FirstPhone(PhonePatterns, text)

MaxSkills == 20       \* list(set(skills))[:20]
SkillMaxLen == 50     \* len(item) < 50

skill_keywords ==
    <<Chars("Python"), Chars("Java"), Chars("JavaScript"), Chars("TypeScript"),
      Chars("React"), Chars("Angular"), Chars("Vue"), Chars("Node.js"),
      Chars("Django"), Chars("FastAPI"), Chars("Flask"), Chars("SQL"),
      Chars("MongoDB"), Chars("PostgreSQL"), Chars("Docker"), Chars("Kubernetes"),
      Chars("AWS"), Chars("Azure"), Chars("GCP"), Chars("Git"), Chars("CI/CD"),
      Chars("Machine Learning"), Chars("Deep Learning"), Chars("NLP"),
      Chars("TensorFlow"), Chars("PyTorch"), Chars("Data Analysis"),
      Chars("REST API"), Chars("GraphQL"), Chars("Microservices"), Chars("Agile"),
      Chars("HTML"), Chars("CSS"), Chars("Tailwind"), Chars("Bootstrap"),
      Chars("Redis"), Chars("RabbitMQ"), Chars("Linux"), Chars("Bash"),
      Chars("DevOps"), Chars("Security"), Chars("Testing"), Chars("Selenium")>>

RECURSIVE KeywordsIn(_, _)
\* the keywords whose lowercase form occurs in text_lower, in the order of the list
KeywordsIn(keywords, text_lower) ==
    IF keywords = << >> THEN << >>
    ELSE (IF Contains(Lower(Head(keywords)), text_lower) THEN <<Head(keywords)>> ELSE << >>)
             \o KeywordsIn(Tail(keywords), text_lower)

\* r'(?:skills?|technical skills?|competencies)[\s:]+(.+?)(?:\n\n|\n[A-Z]|$)' with
\* re.IGNORECASE | re.DOTALL
skills_section_pattern ==
    <<OneOf(<<LitAnyCase(Chars("skills")), LitAnyCase(Chars("skill")),
              LitAnyCase(Chars("technical skills")), LitAnyCase(Chars("technical skill")),
              LitAnyCase(Chars("competencies"))>>),
      Plus(Whitespace \cup {":"}),
      LazyPlus(Alphabet),
      OneOf(<<Lit(<<"\n", "\n">>), Classes(<<{"\n"}, AnyCase(UpperLetters)>>),
              EndOfText>>)>>

\* matches[0] of a section pattern: the text of its group, the third step, in the
\* first match
SectionText(matches, text) == Group(text, matches[1], 3, 3)

\* r'[,\n•\-]' as the source file spells it
ItemSeparators == {",", "\n", "-"} \cup Range(Chars("â€¢"))

RECURSIVE SkillItems(_)
\* the loop over the items of the skills section
SkillItems(items) ==
    IF items = << >> THEN << >>
    ELSE (IF Strip(Head(items)) # << >> /\ Len(Strip(Head(items))) < SkillMaxLen
          THEN <<Strip(Head(items))>> ELSE << >>)
             \o SkillItems(Tail(items))

\* the items of the skills section, none when the text has no such section
SectionSkills(matches, text) ==
    IF matches = << >> THEN << >>
    ELSE SkillItems(SplitOn(ItemSeparators, SectionText(matches, text)))

\* list(set(skills)) without the limit of 20
UniqueSkills_NoLimit(skills) == SetToSeq(Range(skills))

\* list(set(skills))[:20]; the order of a set is the interpreter's, here one fixed
\* order
UniqueSkills(skills) == Prefix(SetToSeq(Range(skills)), MaxSkills)

\* skills before it is made unique: the keywords found in the text, then the items
\* of the skills section
FoundSkills(text) ==
    KeywordsIn(skill_keywords, Lower(text))
        \o SectionSkills(FindAll(skills_section_pattern, text), text)

\* _extract_skills(text)
extract_skills(text) == UniqueSkills(FoundSkills(text))

MaxExperiences == 5   \* job_matches[:5]

\* r'(?:experience|work history|employment)[\s:]+(.+?)(?:\n\n[A-Z]|education|skills|$)'
\* with re.IGNORECASE | re.DOTALL
exp_section_pattern ==
    <<OneOf(<<LitAnyCase(Chars("experience")), LitAnyCase(Chars("work history")),
              LitAnyCase(Chars("employment"))>>),
      Plus(Whitespace \cup {":"}),
      LazyPlus(Alphabet),
      OneOf(<<Classes(<<{"\n"}, {"\n"}, AnyCase(UpperLetters)>>),
              LitAnyCase(Chars("education")), LitAnyCase(Chars("skills")), EndOfText>>)>>

\* job_patterns, and the steps of their two groups
job_patterns ==
    << [pattern |-> <<One(UpperLetters), Plus(Letters \cup Whitespace), Plus(Whitespace),
                      OneOf(<<Lit(Chars("at")), Lit(<<"@">>)>>), Plus(Whitespace),
                      One(UpperLetters),
                      Plus(Letters \cup Whitespace \cup Range(Chars("&.,")))>>,
        first |-> <<1, 2>>, second |-> <<6, 7>>],
       [pattern |-> <<One(UpperLetters),
                      Plus(Letters \cup Whitespace \cup Range(Chars("&.,"))),
                      Plus(Whitespace), One({"-"}), Plus(Whitespace),
                      One(UpperLetters), Plus(Letters \cup Whitespace)>>,
        first |-> <<1, 2>>, second |-> <<6, 7>>] >>

\* the entries appended for the matches of one job pattern
JobEntries(job_pattern, job_matches, section_text) ==
    [i \in 1..Len(job_matches) |->
        PyDict([title |-> PyStr(Strip(Group(section_text, job_matches[i],
                                            job_pattern.first[1], job_pattern.first[2]))),
                company |-> PyStr(Strip(Group(section_text, job_matches[i],
                                              job_pattern.second[1],
                                              job_pattern.second[2])))])]

RECURSIVE SectionExperience(_, _)
\* the loop over job_patterns: up to five matches of each pattern
SectionExperience(patterns, section_text) ==
    IF patterns = << >> THEN << >>
    ELSE JobEntries(Head(patterns),
                    Prefix(FindAll(Head(patterns).pattern, section_text), MaxExperiences),
                    section_text)
             \o SectionExperience(Tail(patterns), section_text)

\* the entries of the experience section, none when the text has no such section
ExperienceOf(matches, text) ==
    IF matches = << >> THEN << >>
    ELSE SectionExperience(job_patterns, SectionText(matches, text))

\* _extract_experience(text)
extract_experience(text) == ExperienceOf(FindAll(exp_section_pattern, text), text)

\* r'(?:education|academic|qualifications)[\s:]+(.+?)(?:\n\n[A-Z]|experience|skills|$)'
\* with re.IGNORECASE | re.DOTALL
edu_section_pattern ==
    <<OneOf(<<LitAnyCase(Chars("education")), LitAnyCase(Chars("academic")),
              LitAnyCase(Chars("qualifications"))>>),
      Plus(Whitespace \cup {":"}),
      LazyPlus(Alphabet),
      OneOf(<<Classes(<<{"\n"}, {"\n"}, AnyCase(UpperLetters)>>),
              LitAnyCase(Chars("experience")), LitAnyCase(Chars("skills")), EndOfText>>)>>

degree_keywords ==
    <<Chars("Bachelor"), Chars("Master"), Chars("PhD"), Chars("BSc"), Chars("MSc"),
      Chars("MBA"), Chars("Degree")>>

RECURSIVE DegreeLines(_, _)
\* the entries appended for one keyword: one for each line that contains it
DegreeLines(keyword_lower, lines) ==
    IF lines = << >> THEN << >>
    ELSE (IF Contains(keyword_lower, Lower(Head(lines)))
          THEN <<PyDict([degree |-> PyStr(Strip(Head(lines))),
                         institution |-> PyStr(<< >>)])>>
          ELSE << >>)
             \o DegreeLines(keyword_lower, Tail(lines))

RECURSIVE SectionEducation(_, _)
\* the loop over degree_keywords
SectionEducation(keywords, section_text) ==
    IF keywords = << >> THEN << >>
    ELSE (IF Contains(Lower(Head(keywords)), Lower(section_text))
          THEN DegreeLines(Lower(Head(keywords)), SplitOn({"\n"}, section_text))
          ELSE << >>)
             \o SectionEducation(Tail(keywords), section_text)

\* the entries of the education section, none when the text has no such section
EducationOf(matches, text) ==
    IF matches = << >> THEN << >>
    ELSE SectionEducation(degree_keywords, SectionText(matches, text))

\* _extract_education(text)
extract_education(text) == EducationOf(FindAll(edu_section_pattern, text), text)

common_languages ==
    <<Chars("English"), Chars("French"), Chars("Spanish"), Chars("German"),
      Chars("Italian"), Chars("Portuguese"), Chars("Chinese"), Chars("Japanese"),
      Chars("Korean"), Chars("Arabic"), Chars("Russian"), Chars("Hindi")>>

\* _extract_languages(text)
extract_languages(text) == SetToSeq(Range(KeywordsIn(common_languages, Lower(text))))

\* a list of strings as a Python value
StrList(strings) == PyList([i \in 1..Len(strings) |-> PyStr(strings[i])])

\* analyze_cv(cv_content): the profile dict
analyze_cv(cv_content) ==
    [name |-> PyStr(extract_name(cv_content)),
     email |-> PyStr(extract_email(cv_content)),
     phone |-> PyStr(extract_phone(cv_content)),
     skills |-> StrList(extract_skills(cv_content)),
     experience |-> PyList(extract_experience(cv_content)),
     education |-> PyList(extract_education(cv_content)),
     languages |-> StrList(extract_languages(cv_content)),
     raw_text |-> PyStr(cv_content)]


-----------------------------------------------------------------------------
(* The CV texts of the model *)

MaxLines == 6        \* the lines of a header text
MaxKeywords == 22    \* the entries of a skills text
MaxJobLines == 6     \* the lines of each shape in an experience text

\* the lines a header text is made of: a blank line, a name, an address
HeaderLines == { << >>, Chars("Jane Doe"), Chars("jane@x.com") }

\* the texts of up to MaxLines header lines
HeaderTexts ==
    { JoinStr(<<"\n">>, lines) : lines \in UNION { [1..n -> HeaderLines] : n \in 0..MaxLines } }

\* "tool1", "tool2", ...: skills outside the keyword list
ToolNames(n) == [i \in 1..n |-> Chars("tool") \o Chars(IntDigits(i))]

\* the texts that list n skills, the first ones of them again, with or without
\* the heading of a skills section, on one line or as a bullet list
SkillsTexts ==
    { heading \o JoinStr(sep, Prefix(names, n) \o Prefix(names, again)) :
        heading \in { << >>, Chars("Skills: ") },
        sep \in { Chars(", "), Chars("\n- ") },
        names \in { skill_keywords, ToolNames(MaxKeywords) },
        n \in 0..MaxKeywords,
        again \in 0..2 }

\* n numbered lines
NumberedLines(line, n) == [i \in 1..n |-> line \o Chars(" ") \o Chars(IntDigits(i))]

\* the texts with an experience section of lines of the two shapes
ExperienceTexts ==
    { Chars("Experience:\n")
          \o JoinStr(<<"\n">>, NumberedLines(Chars("Engineer at Acme"), titled)
                                  \o NumberedLines(Chars("Globex - Developer"), dashed)) :
        titled \in 0..MaxJobLines, dashed \in 0..MaxJobLines }

\* job lines of the two shapes, each with its own words
JobLines ==
    { Chars("Engineer at Acme"), Chars("Analyst at Initech"),
      Chars("Globex - Developer"), Chars("Umbrella - Tester") }

\* the texts with an experience section of different job lines in any order
OrderedExperienceTexts ==
    { Chars("Experience:\n")
          \o JoinStr(<<"\n">>, [i \in 1..Len(lines) |->
                                   lines[i] \o Chars(" ") \o Chars(IntDigits(i))]) :
        lines \in { l \in SeqsUpTo(JobLines, Cardinality(JobLines)) :
                      \A i, j \in 1..Len(l) : i # j => l[i] # l[j] } }

\* whole CVs
SampleTexts ==
    { Chars("Jane Doe\njane@x.com\n+33 612345678\n\nSkills: Python, SQL\n\nExperience:\nData Engineer at Acme Corp\n\nEducation:\nMSc Data Analysis, Lyon\n\nEnglish, French"),
      Chars("JANE DOE\nPhone: (555) 123-4567\nTechnical Skills:\n- Docker\n- Kubernetes\nWork history: Acme - Backend Developer"),
      Chars("curriculum vitae\n\n0612345678 jane.doe@mail.example.org\nqualifications: Bachelor degree\nPhD") }

CvTexts ==
    HeaderTexts \cup SkillsTexts \cup ExperienceTexts \cup OrderedExperienceTexts
        \cup SampleTexts

-----------------------------------------------------------------------------
(* analyze_cv as a state machine: a text is handed in, the agent returns its *)
(* profile                                                                  *)

InitCv ==
    /\ job_data = [k \in {} |-> None]
    /\ field_name = "title"
    /\ field_value = NotCalled
    /\ model = "None"
    /\ backend = TRUE
    /\ sim_call = NotCalled
    /\ cv_data = [k \in {} |-> None]
    /\ job_offers = << >>
    /\ \E cv_content \in CvTexts :
           call = [op |-> "analyze_cv", cv_content |-> cv_content, result |-> NotCalled]
    /\ baseline = NotCalled
    /\ applications_log = << >>
    /\ groq_service = "None"
    /\ threads = << >>

\* cv_analysis_agent.analyze_cv(cv_content): the call returns its profile, which is
\* the resume data of the later steps
AnalyzeCv ==
    /\ call.op = "analyze_cv"
    /\ call.result = NotCalled
    /\ call' = [call EXCEPT !.result = Returned(analyze_cv(call.cv_content))]
    /\ cv_data' = call'.result.v
    /\ UNCHANGED <<fieldVars, nlpVars, job_offers, baseline, appVars>>

NextCv == AnalyzeCv

SpecCv == InitCv /\ [][NextCv]_vars


-----------------------------------------------------------------------------
(* Properties of analyze_cv, checked under SpecCv *)

\* analyze_cv has returned
Analyzed == call # NotCalled /\ call.op = "analyze_cv" /\ call.result # NotCalled

\* the lines of a text that are not blank
RECURSIVE NonEmptyLines(_)
NonEmptyLines(lines) ==
    IF lines = << >> THEN << >>
    ELSE (IF Strip(Head(lines)) # << >> THEN <<Head(lines)>> ELSE << >>)
             \o NonEmptyLines(Tail(lines))

\* C17: the name is the first of the first 5 non-empty lines of the text (blank
\* lines not counting toward the 5) that is under 50 characters, has no "@" and
\* is an uppercase letter followed only by letters and spaces, and "" when none
\* of those 5 lines qualifies.
C17_NameAmongNonEmptyLines ==
    Analyzed =>
        call.result.v.name.v
            = FirstName(Prefix(NonEmptyLines(SplitOn({"\n"}, call.cv_content)), 5))

\* C16: the experience list has at most 5 entries, whatever mix of "Title at
\* Company" and "Company - Title" lines the experience section holds.
C16_AtMostFiveExperiences == Analyzed => Len(call.result.v.experience.v) <= 5

\* C15: the skills list has at most 20 entries and no two of them are equal
\* strings, also for a text with more than 20 distinct keywords or section items.
C15_SkillsUniqueAtMostTwenty ==
    Analyzed =>
        LET skills == call.result.v.skills.v
        IN /\ Len(skills) <= 20
           /\ \A i, j \in 1..Len(skills) : i # j => skills[i] # skills[j]

\* a text in which more than 20 distinct skills are found, some of them twice,
\* and the 20 entries returned for it
C15_Witness ==
    /\ Analyzed
    /\ Cardinality(Range(FoundSkills(call.cv_content))) > 20
    /\ Len(FoundSkills(call.cv_content)) > Cardinality(Range(FoundSkills(call.cv_content)))
    /\ Len(call.result.v.skills.v) = 20

ProfileKeys ==
    {"name", "email", "phone", "skills", "experience", "education", "languages",
     "raw_text"}

\* whether one of the words occurs in the text, in any case
MentionsAny(words, text) == \E w \in words : Contains(Lower(w), Lower(text))

\* C18: analyze_cv returns, for every text and for the empty one, a profile with
\* all of name, email, phone, skills, experience, education, languages and
\* raw_text; name, email and phone are strings and the four others lists, a field
\* for which the text holds no signal is "" or [], and raw_text is the text
\* handed in.
C18_AlwaysWholeProfile ==
    Analyzed =>
        LET text == call.cv_content
            profile == call.result.v
        IN /\ call.result.ok
           /\ DOMAIN profile = ProfileKeys
           /\ \A k \in {"name", "email", "phone", "raw_text"} : profile[k].t = "str"
           /\ \A k \in {"skills", "experience", "education", "languages"} :
                  profile[k].t = "list"
           /\ profile.raw_text.v = text
           /\ Range(text) \cap UpperLetters = {} => profile.name = PyStr(<< >>)
           /\ "@" \notin Range(text) => profile.email = PyStr(<< >>)
           /\ Range(text) \cap DigitChars = {} => profile.phone = PyStr(<< >>)
           /\ ~MentionsAny(Range(skill_keywords) \cup {Chars("skill"), Chars("competencies")},
                           text)
                  => profile.skills = PyList(<< >>)
           /\ ~MentionsAny({Chars("experience"), Chars("work history"), Chars("employment")},
                           text)
                  => profile.experience = PyList(<< >>)
           /\ ~MentionsAny({Chars("education"), Chars("academic"), Chars("qualifications")},
                           text)
                  => profile.education = PyList(<< >>)
           /\ ~MentionsAny(Range(common_languages), text) => profile.languages = PyList(<< >>)

\* the empty text analysed: every field is empty
C18_Witness ==
    /\ Analyzed
    /\ call.cv_content = << >>
    /\ call.result.ok
    /\ \A k \in {"name", "email", "phone", "raw_text"} : call.result.v[k] = PyStr(<< >>)
    /\ \A k \in {"skills", "experience", "education", "languages"} :
           call.result.v[k] = PyList(<< >>)

-----------------------------------------------------------------------------
(* Properties of the order among equal scores, checked under Spec *)

\* the position in job_offers of the job a ranking entry was made from
InputIndex(entry) == CHOOSE i \in 1..Len(job_offers) : Scored(job_offers[i]) = entry

\* C24: among jobs of equal match_score, match_cv_with_jobs keeps the order of the
\* input list: a returned job stands before every returned job of the same score
\* that comes later in the input, and a job cut off by top_n comes later in the
\* input than every returned job of the same score.
C24_TiesInInputOrder ==
    CallIs("match_cv_with_jobs") =>
        LET ranking == call.result.v
        IN /\ \A k, l \in 1..Len(ranking) :
                 (k < l /\ ranking[k]["match_score"].c = ranking[l]["match_score"].c)
                     => InputIndex(ranking[k]) < InputIndex(ranking[l])
           /\ \A k \in 1..Len(ranking) : \A i \in LeftOut(ranking) :
                 ranking[k]["match_score"].c = Scored(job_offers[i])["match_score"].c
                     => InputIndex(ranking[k]) < i

\* two jobs of equal score ranked in full, and the same list cut to its first job
C24_Witness ==
    /\ CallIs("match_cv_with_jobs")
    /\ Len(job_offers) = 2
    /\ Scored(job_offers[1])["match_score"].c = Scored(job_offers[2])["match_score"].c
    /\ call.top_n = 1
    /\ call.result.v = <<Scored(job_offers[1])>>
    /\ baseline.top_n = 2
    /\ baseline.result.v = <<Scored(job_offers[1]), Scored(job_offers[2])>>

-----------------------------------------------------------------------------
(* Properties of the inputs of the ranking, checked under Spec *)

\* C26: match_cv_with_jobs and rank_jobs leave their inputs as they were: the job
\* list holds the same records in the same order, no input record has a
\* match_score or similarity_score key after the call, and the resume profile is
\* the same.
C26_InputsUnchanged ==
    [][(call' # NotCalled /\ call'.op \in {"match_cv_with_jobs", "rank_jobs"}) =>
          /\ job_offers' = job_offers
          /\ \A i \in 1..Len(job_offers') :
                 DOMAIN job_offers'[i] \cap {"match_score", "similarity_score"} = {}
          /\ cv_data' = cv_data]_vars

\* a ranking of two jobs returned: the returned records carry the scores, the
\* input records do not
C26_Witness ==
    /\ CallIs("match_cv_with_jobs")
    /\ Len(job_offers) = 2
    /\ Len(call.result.v) = 2
    /\ \A i \in 1..2 :
           /\ {"match_score", "similarity_score"} \subseteq DOMAIN call.result.v[i]
           /\ DOMAIN job_offers[i] \cap {"match_score", "similarity_score"} = {}

-----------------------------------------------------------------------------
(* Properties of the job summary, checked under SpecExplain *)

\* the label create_job_summary writes before a field
SummaryLabel(name) ==
    CASE name = "company" -> "Company"
      [] name = "location" -> "Location"
      [] name = "type" -> "Type"
      [] name = "description" -> "Description"

\* whether a line of the summary starts with the label
HasLabel(line, label) == Len(line) >= 3 /\ SubSeq(line, 1, 3) = <<label, ":", " ">>

\* C25: the job summary handed to compute_similarity renders the normalised
\* fields of the job: for company, location, type and description the summary
\* has the line "Label: value" with value = get_job_field(job, field) when that
\* value is not empty, and no line with that label when it is empty.
C25_SummaryOfNormalisedFields ==
    sim_call # NotCalled =>
        \A name \in {"company", "location", "type", "description"} :
            LET value == get_job_field(job_data, name).v
                lines == Range(SplitOn({"\n"}, sim_call.text2))
            IN IF value # << >>
               THEN <<SummaryLabel(name), ":", " ">> \o value \in lines
               ELSE \A line \in lines : ~HasLabel(line, SummaryLabel(name))

-----------------------------------------------------------------------------
(* Properties of the order of the experience entries, checked under SpecCv *)

\* the first position of s at which sub occurs
IndexOf(sub, s) == Least({ i \in 1..(Len(s) - Len(sub) + 1) : SubSeq(s, i, i + Len(sub) - 1) = sub })

\* the position in the text of the job line of an entry: where its first group,
\* stored under 'title', starts
JobLineStart(entry, text) == IndexOf(entry.v.title.v, text)

\* C27: the experience entries stand in document order: an entry whose job line
\* comes earlier in the text stands earlier in the list, whichever of the two
\* line shapes each one matched.
C27_DocumentOrder ==
    Analyzed =>
        LET experience == call.result.v.experience.v
        IN \A i, j \in 1..Len(experience) :
               JobLineStart(experience[i], call.cv_content)
                       < JobLineStart(experience[j], call.cv_content)
                   => i < j

-----------------------------------------------------------------------------
(* agents/job_fetcher_agent.py: JobFetcherAgent, and JobApplicationCrew.fetch_jobs *)
(* of crew/crew.py.  The job store, data/job_offers.json, is job_offers; its      *)
(* strings are read character by character.                                       *)

RECURSIVE Flatten(_)
\* a string split down to one character per atom
Flatten(s) == IF s = << >> THEN << >> ELSE Chars(Head(s)) \o Flatten(Tail(s))

\* a.lower() in b.lower()
ContainsLower(a, b) == Contains(Lower(Flatten(a)), Lower(Flatten(b)))

\* [job for job in jobs if keep(job)] for the set wanted of the positions kept
RECURSIVE Filter(_, _, _)
Filter(jobs, wanted, i) ==
    IF i > Len(jobs) THEN << >>
    ELSE (IF i \in wanted THEN <<jobs[i]>> ELSE << >>) \o Filter(jobs, wanted, i + 1)

\* fetch_jobs_by_type(job_type)
fetch_jobs_by_type(all_jobs, job_type) ==
    Filter(all_jobs,
           { i \in 1..Len(all_jobs) :
               ContainsLower(job_type, get_job_field(all_jobs[i], "type").v) },
           1)

\* fetch_jobs_by_location(location)
fetch_jobs_by_location(all_jobs, location) ==
    Filter(all_jobs,
           { i \in 1..Len(all_jobs) :
               ContainsLower(location, get_job_field(all_jobs[i], "location").v) },
           1)

\* requirements_text: the requirements joined by a space, '' without requirements
RequirementsText(job) ==
    IF Truthy(DictGet(job, "requirements"))
    THEN JoinStr(<<" ">>, [i \in 1..Len(job["requirements"].v) |-> job["requirements"].v[i].v])
    ELSE << >>

\* fetch_jobs_by_keyword(keyword)
fetch_jobs_by_keyword(all_jobs, keyword) ==
    Filter(all_jobs,
           { i \in 1..Len(all_jobs) :
               \/ ContainsLower(keyword, get_job_field(all_jobs[i], "title").v)
               \/ ContainsLower(keyword, get_job_field(all_jobs[i], "description").v)
               \/ ContainsLower(keyword, RequirementsText(all_jobs[i])) },
           1)

\* JobApplicationCrew.fetch_jobs(job_type, location, keyword): each filter is None
\* or a string
fetch_jobs(all_jobs, job_type, location, keyword) ==
    IF Truthy(job_type) THEN fetch_jobs_by_type(all_jobs, job_type.v)
    ELSE IF Truthy(location) THEN fetch_jobs_by_location(all_jobs, location.v)
    ELSE IF Truthy(keyword) THEN fetch_jobs_by_keyword(all_jobs, keyword.v)
    ELSE all_jobs

\* str(a) == str(b)
SameStr(a, b) == Flatten(Str(a)) = Flatten(Str(b))

\* get_job_by_id(job_id): the first job whose id reads as job_id, else None
get_job_by_id(all_jobs, job_id) ==
    IF \E i \in 1..Len(all_jobs) : SameStr(DictGet(all_jobs[i], "id"), job_id)
    THEN PyDict(all_jobs[Least({ i \in 1..Len(all_jobs) :
                                   SameStr(DictGet(all_jobs[i], "id"), job_id) })])
    ELSE None

\* [job.get('id', 0) for job in all_jobs]
JobIds(all_jobs) ==
    [i \in 1..Len(all_jobs) |-> DictGetDefault(all_jobs[i], "id", PyInt(0))]

\* max(ids) + 1 for a non-empty list: the integer when every id is an integer; a
\* string or null id makes the comparison of max or the addition raise TypeError
NextId(ids) ==
    IF \A i \in 1..Len(ids) : ids[i].t = "int"
    THEN Returned(PyInt(1 + CHOOSE m \in { ids[i].v : i \in 1..Len(ids) } :
                                \A i \in 1..Len(ids) : ids[i].v <= m))
    ELSE Raised("TypeError")

\* max_id + 1
NewId(all_jobs) == IF all_jobs # << >> THEN NextId(JobIds(all_jobs)) ELSE Returned(PyInt(1))

\* add_job_offer(job_data) on the store all_jobs: the value returned and the store
\* left; an exception is caught before anything is written
add_job_offer(all_jobs, new_job) ==
    IF NewId(all_jobs).ok
    THEN [result |-> PyBool(TRUE),
          store |-> Append(all_jobs, WithKey(new_job, "id", NewId(all_jobs).v))]
    ELSE [result |-> PyBool(FALSE), store |-> all_jobs]

MaxStore == 3    \* the jobs the store holds at most

\* records of the legacy scheme, of the current scheme with its string id, and
\* without id
StoreLegacy ==
    [id |-> PyInt(1), title |-> PyStr(Chars("Data Engineer")),
     company |-> PyStr(Chars("Acme")), location |-> PyStr(Chars("Lyon")),
     type |-> PyStr(Chars("Internship")),
     description |-> PyStr(Chars("Build data pipelines")),
     requirements |-> PyList(<<PyStr(Chars("Python")), PyStr(Chars("SQL"))>>)]

StoreCurrent ==
    [id |-> PyStr(Chars("2")), title |-> PyStr(Chars("Backend Developer")),
     organization |-> PyStr(Chars("Globex")),
     locations_derived |-> PyList(<<PyStr(Chars("Paris"))>>),
     employment_type |-> PyList(<<PyStr(Chars("FULL_TIME"))>>),
     description_text |-> PyStr(Chars("Python services"))]

StoreNoId ==
    [title |-> PyStr(Chars("Python Tester")), location |-> PyStr(Chars("Paris")),
     type |-> PyStr(Chars("Full-time"))]

StoreAnalyst ==
    [id |-> PyInt(7), title |-> PyStr(Chars("Analyst")),
     location |-> PyStr(Chars("Paris")), type |-> PyStr(Chars("Internship")),
     description |-> PyStr(Chars("SQL reports"))]

StoreJobs == { StoreLegacy, StoreCurrent, StoreNoId, StoreAnalyst }

\* the contents of the store at the start
Stores ==
    { l \in SeqsUpTo(StoreJobs, MaxStore - 1) : \A i, j \in 1..Len(l) : i # j => l[i] # l[j] }

\* the jobs handed to add_job_offer
NewJobs ==
    { [title |-> PyStr(Chars("QA Engineer"))],
      [id |-> PyInt(1), title |-> PyStr(Chars("Data Analyst")),
       location |-> PyStr(Chars("Lyon"))] }

TypeFilters == { None, PyStr(Chars("intern")), PyStr(Chars("full")) }
LocationFilters == { None, PyStr(Chars("paris")), PyStr(Chars("Lyon")) }
KeywordFilters == { None, PyStr(Chars("python")), PyStr(Chars("SQL")) }
JobIdArguments == { PyInt(1), PyStr(Chars("1")), PyInt(2), PyInt(8), PyStr(Chars("None")) }

InitJobs ==
    /\ job_data = [k \in {} |-> None]
    /\ field_name = "title"
    /\ field_value = NotCalled
    /\ model = "None"
    /\ backend = TRUE
    /\ sim_call = NotCalled
    /\ cv_data = [k \in {} |-> None]
    /\ job_offers \in Stores
    /\ call = NotCalled
    /\ baseline = NotCalled
    /\ applications_log = << >>
    /\ groq_service = "None"
    /\ threads = << >>

\* job_application_crew.fetch_jobs(job_type, location, keyword), as GET /job-offers
\* calls it
FetchJobs(job_type, location, keyword) ==
    /\ call' = [op |-> "fetch_jobs", job_type |-> job_type, location |-> location,
                keyword |-> keyword,
                result |-> Returned(fetch_jobs(job_offers, job_type, location, keyword))]
    /\ UNCHANGED <<fieldVars, nlpVars, cv_data, job_offers, baseline, appVars>>

\* job_fetcher_agent.get_job_by_id(job_id)
GetJobById(job_id) ==
    /\ call' = [op |-> "get_job_by_id", job_id |-> job_id,
                result |-> Returned(get_job_by_id(job_offers, job_id))]
    /\ UNCHANGED <<fieldVars, nlpVars, cv_data, job_offers, baseline, appVars>>

\* job_fetcher_agent.add_job_offer(job_data)
AddJobOffer(new_job) ==
    /\ Len(job_offers) < MaxStore
    /\ call' = [op |-> "add_job_offer", job_data |-> new_job,
                result |-> Returned(add_job_offer(job_offers, new_job).result)]
    /\ job_offers' = add_job_offer(job_offers, new_job).store
    /\ UNCHANGED <<fieldVars, nlpVars, cv_data, baseline, appVars>>

NextJobs ==
    \/ \E job_type \in TypeFilters, location \in LocationFilters, keyword \in KeywordFilters :
           FetchJobs(job_type, location, keyword)
    \/ \E job_id \in JobIdArguments : GetJobById(job_id)
    \/ \E new_job \in NewJobs : AddJobOffer(new_job)

SpecJobs == InitJobs /\ [][NextJobs]_vars

-----------------------------------------------------------------------------
(* Properties of the job store, checked under SpecJobs *)

\* whether a job passes the keyword filter
MatchesKeyword(job, keyword) ==
    \/ ContainsLower(keyword, get_job_field(job, "title").v)
    \/ ContainsLower(keyword, get_job_field(job, "description").v)
    \/ ContainsLower(keyword, RequirementsText(job))

\* C21: every job fetch_jobs returns passes every filter that was supplied: its
\* type contains job_type, its location contains location, and its title,
\* description or requirements contain keyword, without regard to case, also
\* when two or three filters are supplied together.
C21_EveryFilterApplies ==
    CallIs("fetch_jobs") =>
        \A i \in 1..Len(call.result.v) :
            LET job == call.result.v[i]
            IN /\ call.job_type # None
                    => ContainsLower(call.job_type.v, get_job_field(job, "type").v)
               /\ call.location # None
                    => ContainsLower(call.location.v, get_job_field(job, "location").v)
               /\ call.keyword # None => MatchesKeyword(job, call.keyword.v)

\* C30: add_job_offer returns True, keeps the jobs of the store and appends the new
\* job with an id that reads differently from every id of the store, and
\* get_job_by_id of that id then returns the added job, whatever ids the store
\* holds: integers, strings, or none.
C30_AddsUnderFreshId ==
    [][(call' # NotCalled /\ call'.op = "add_job_offer" /\ <<call, job_offers>>' # <<call, job_offers>>) =>
          /\ call'.result.v = PyBool(TRUE)
          /\ Len(job_offers') = Len(job_offers) + 1
          /\ SubSeq(job_offers', 1, Len(job_offers)) = job_offers
          /\ \A k \in DOMAIN call'.job_data \ {"id"} :
                 job_offers'[Len(job_offers')][k] = call'.job_data[k]
          /\ \A i \in 1..Len(job_offers) :
                 ~SameStr(DictGet(job_offers[i], "id"), job_offers'[Len(job_offers')]["id"])
          /\ get_job_by_id(job_offers', job_offers'[Len(job_offers')]["id"])
                 = PyDict(job_offers'[Len(job_offers')])]_vars

-----------------------------------------------------------------------------
(* crew/crew.py: JobApplicationCrew.generate_cover_letter, with the lazily     *)
(* created service of services/groq_cover_letter_service.py.  The environment  *)
(* env of a call says whether GROQ_API_KEY is set, and how the Groq API and    *)
(* CrewAI answer when they are called.                                         *)

\* the attributes of a GroqCoverLetterService instance
GroqServiceAttributes ==
    { "client", "model", "_extract_skills", "_extract_job_requirements", "_match_skills",
      "_extract_candidate_info", "_normalize_text_for_pdf", "generate_cover_letter",
      "get_skill_match_report" }

\* GroqCoverLetterService(): raises ValueError without GROQ_API_KEY
NewGroqService(env) ==
    IF env.api_key THEN Returned("GroqCoverLetterService") ELSE Raised("ValueError")

\* get_groq_cover_letter_service(): the singleton, created on first use
get_groq_cover_letter_service(service, env) ==
    IF service = "None" THEN NewGroqService(env) ELSE Returned(service)

\* _groq_cover_letter_service after get_groq_cover_letter_service()
ServiceAfterGet(service, env) ==
    IF get_groq_cover_letter_service(service, env).ok
    THEN get_groq_cover_letter_service(service, env).v
    ELSE service

\* _GroqServiceProxy.__getattr__(name): the attribute of the singleton, else
\* AttributeError, or the exception of its creation
ProxyGetAttr(service, env, name) ==
    IF ~get_groq_cover_letter_service(service, env).ok
    THEN get_groq_cover_letter_service(service, env)
    ELSE IF name \in GroqServiceAttributes THEN Returned(name)
    ELSE Raised("AttributeError")

\* hasattr(groq_cover_letter_service, name): False on AttributeError, any other
\* exception goes on to the caller
HasAttr(service, env, name) ==
    IF ProxyGetAttr(service, env, name).ok THEN Returned(TRUE)
    ELSE IF ProxyGetAttr(service, env, name).exc = "AttributeError" THEN Returned(FALSE)
    ELSE ProxyGetAttr(service, env, name)

\* GroqCoverLetterService.generate_cover_letter: the letter of the Groq API, or
\* the exception that wraps its error
GroqLetter(env) ==
    IF env.groq_api = "ok" THEN Returned([by |-> "groq"]) ELSE Raised("Exception")

\* the try block of generate_cover_letter: the letter of Groq, or the exception
\* that sends the call to the fallback
TryGroq(service, env, cv, job) ==
    IF cv = << >> THEN Raised("ValueError")
    ELSE IF job = << >> THEN Raised("ValueError")
    ELSE IF ~HasAttr(service, env, "is_available").ok THEN HasAttr(service, env, "is_available")
    ELSE IF ~HasAttr(service, env, "is_available").v THEN Raised("Exception")
    ELSE GroqLetter(env)

\* _groq_cover_letter_service after the try block: created when the proxy was
\* asked for an attribute and the key is set
ServiceAfterTry(service, env, cv, job) ==
    IF cv = << >> \/ job = << >> THEN service ELSE ServiceAfterGet(service, env)

\* the fallback: crew.kickoff() of the cover letter task, both failures wrapped
\* in one exception
CrewLetter(env) ==
    IF env.crewai = "ok" THEN Returned([by |-> "crewai"]) ELSE Raised("Exception")

\* generate_cover_letter(cv_data, job_data, custom_message): the letter returned
\* or the exception raised, and the services that were asked for a letter
generate_cover_letter(service, env, cv, job) ==
    IF TryGroq(service, env, cv, job).ok
    THEN [result |-> TryGroq(service, env, cv, job), asked |-> <<"groq">>]
    ELSE [result |-> CrewLetter(env),
          asked |-> IF ~cv = << >> /\ ~job = << >>
                       /\ HasAttr(service, env, "is_available") = Returned(TRUE)
                    THEN <<"groq", "crewai">> ELSE <<"crewai">>]

LetterEnvs == [api_key : BOOLEAN, groq_api : {"ok", "error"}, crewai : {"ok", "error"}]
LetterResumes == { << >>, ResumeJane, ResumeDev }
LetterJobs == { << >>, JobData, JobBackend, JobPython }

InitLetter ==
    /\ job_data = [k \in {} |-> None]
    /\ field_name = "title"
    /\ field_value = NotCalled
    /\ model = "None"
    /\ backend = TRUE
    /\ sim_call = NotCalled
    /\ cv_data = [k \in {} |-> None]
    /\ job_offers = << >>
    /\ call = NotCalled
    /\ baseline = NotCalled
    /\ applications_log = << >>
    /\ groq_service = "None"
    /\ threads = << >>

\* job_application_crew.generate_cover_letter(cv, job) in the environment env
GenerateCoverLetter(env, cv, job) ==
    /\ call' = [op |-> "generate_cover_letter", env |-> env, cv_data |-> cv, job_data |-> job,
                result |-> generate_cover_letter(groq_service, env, cv, job).result,
                asked |-> generate_cover_letter(groq_service, env, cv, job).asked]
    /\ groq_service' = ServiceAfterTry(groq_service, env, cv, job)
    /\ UNCHANGED <<fieldVars, nlpVars, cv_data, job_offers, baseline, applications_log, threads>>

NextLetter ==
    \E env \in LetterEnvs, cv \in LetterResumes, job \in LetterJobs :
        GenerateCoverLetter(env, cv, job)

SpecLetter == InitLetter /\ [][NextLetter]_vars

-----------------------------------------------------------------------------
(* Properties of generate_cover_letter, checked under SpecLetter *)

\* Groq is configured and its call succeeds
GroqWorks(env) == env.api_key /\ env.groq_api = "ok"

\* C22: generate_cover_letter returns the letter of Groq whenever the Groq
\* service is configured and its call succeeds; it asks CrewAI only when Groq is
\* unavailable or its call fails; it raises only when both Groq and CrewAI fail.
C22_GroqFirstThenCrewAI ==
    (call # NotCalled /\ call.op = "generate_cover_letter"
        /\ call.cv_data # << >> /\ call.job_data # << >>) =>
        /\ GroqWorks(call.env) => call.result = Returned([by |-> "groq"])
        /\ Contains(<<"crewai">>, call.asked) => ~GroqWorks(call.env)
        /\ ~call.result.ok => (~GroqWorks(call.env) /\ call.env.crewai = "error")

-----------------------------------------------------------------------------
(* services/nlp_service.py: compute_similarity called from several threads of  *)
(* one process.  A thread runs get_embeddings one read or write of self.model  *)
(* at a time; nothing in the code orders the threads.                          *)

MaxThreads == 2    \* the threads that call compute_similarity

Threads == 1..MaxThreads

\* the texts the threads compare with "Python SQL"
ThreadTexts == { <<"Python", " ", "SQL">>, <<"Docker">> }

\* a thread that has not called yet
Idle == [pc |-> "idle"]

InitThreads ==
    /\ job_data = [k \in {} |-> None]
    /\ field_name = "title"
    /\ field_value = NotCalled
    /\ model = "None"
    /\ backend \in BOOLEAN
    /\ sim_call = NotCalled
    /\ cv_data = [k \in {} |-> None]
    /\ job_offers = << >>
    /\ call = NotCalled
    /\ baseline = NotCalled
    /\ applications_log = << >>
    /\ groq_service = "None"
    /\ threads = [t \in Threads |-> Idle]

\* thread t calls compute_similarity(text1, "Python SQL") and enters _load_model
ThreadCalls(t, text1) ==
    /\ threads[t].pc = "idle"
    /\ threads' = [threads EXCEPT ![t] = [pc |-> "if_none", text1 |-> text1, loads |-> 0]]
    /\ UNCHANGED <<fieldVars, nlpVars, matchVars, applications_log, groq_service>>

\* _load_model: if self.model is None
ThreadTestsNone(t) ==
    /\ threads[t].pc = "if_none"
    /\ threads' = [threads EXCEPT ![t].pc = IF model = "None" THEN "load" ELSE "if_model"]
    /\ UNCHANGED <<fieldVars, nlpVars, matchVars, applications_log, groq_service>>

\* _load_model: self.model = SentenceTransformer(...), or False when that raises
ThreadLoads(t) ==
    /\ threads[t].pc = "load"
    /\ model' = IF backend THEN "Loaded" ELSE "False"
    /\ threads' = [threads EXCEPT ![t].pc = "if_model", ![t].loads = @ + 1]
    /\ UNCHANGED <<fieldVars, backend, sim_call, matchVars, applications_log, groq_service>>

\* get_embeddings: if self.model and self.model is not False; its two reads of
\* self.model are one step, a write between them gives what a later step reads
ThreadTestsModel(t) ==
    /\ threads[t].pc = "if_model"
    /\ threads' = [threads EXCEPT ![t].pc = IF model = "Loaded" THEN "encode" ELSE "simple"]
    /\ UNCHANGED <<fieldVars, nlpVars, matchVars, applications_log, groq_service>>

\* get_embeddings: self.model.encode(texts) on the value self.model has now; False
\* has no encode
ThreadEncodes(t) ==
    /\ threads[t].pc = "encode"
    /\ threads' = [threads EXCEPT ![t] =
                     [pc |-> "done", text1 |-> threads[t].text1, loads |-> threads[t].loads,
                      used |-> model,
                      result |-> IF model = "Loaded"
                                 THEN Returned(compute_similarity(model, threads[t].text1,
                                                                  <<"Python", " ", "SQL">>))
                                 ELSE Raised("AttributeError")]]
    /\ UNCHANGED <<fieldVars, nlpVars, matchVars, applications_log, groq_service>>

\* get_embeddings: self._simple_embeddings(texts)
ThreadFallsBack(t) ==
    /\ threads[t].pc = "simple"
    /\ threads' = [threads EXCEPT ![t] =
                     [pc |-> "done", text1 |-> threads[t].text1, loads |-> threads[t].loads,
                      used |-> "False",
                      result |-> Returned(compute_similarity("False", threads[t].text1,
                                                             <<"Python", " ", "SQL">>))]]
    /\ UNCHANGED <<fieldVars, nlpVars, matchVars, applications_log, groq_service>>

NextThreads ==
    \/ \E t \in Threads, text1 \in ThreadTexts : ThreadCalls(t, text1)
    \/ \E t \in Threads : ThreadTestsNone(t)
    \/ \E t \in Threads : ThreadLoads(t)
    \/ \E t \in Threads : ThreadTestsModel(t)
    \/ \E t \in Threads : ThreadEncodes(t)
    \/ \E t \in Threads : ThreadFallsBack(t)
    \/ BackendChanges

SpecThreads == InitThreads /\ [][NextThreads]_vars

-----------------------------------------------------------------------------
(* Properties of the lazy load under concurrent calls, checked under SpecThreads *)

\* the loads the threads attempted
LoadAttempts == Cardinality({ t \in Threads : threads[t].pc # "idle" /\ threads[t].loads > 0 })

\* C23: for any interleaving of concurrent first calls of compute_similarity the
\* load of the embedding model is attempted at most once, and all calls use the
\* same model state.
C23_LoadedOnceForAllThreads ==
    /\ LoadAttempts <= 1
    /\ \A t, u \in Threads :
           (threads[t].pc = "done" /\ threads[u].pc = "done") => threads[t].used = threads[u].used

-----------------------------------------------------------------------------
(* agents/application_agent.py: ApplicationAgent, and                          *)
(* EmailService.send_job_application of services/email_service.py             *)

\* the files that exist and can be read
ReadableFiles == { <<"uploads", "cv.pdf">>, <<"letter.pdf">> }

\* the paths among cv_path and motivation_letter_path that are given and name a
\* readable file
ValidAttachments(cv_path, motivation_letter_path) ==
    (IF cv_path # None /\ cv_path \in ReadableFiles THEN <<cv_path>> ELSE << >>)
        \o (IF motivation_letter_path # None /\ motivation_letter_path \in ReadableFiles
            THEN <<motivation_letter_path>> ELSE << >>)

\* the methods of email_service that send_job_application runs, itself included
EmailServiceCalls(cv_path, motivation_letter_path) ==
    IF ValidAttachments(cv_path, motivation_letter_path) = << >>
    THEN <<"send_job_application">>
    ELSE <<"send_job_application", "send_email">>

\* EmailService.send_job_application(recipient_email, job_title, company,
\* applicant_name, motivation_letter, cv_path=cv_path,
\* motivation_letter_path=motivation_letter_path) in the environment env
send_job_application(env, recipient_email, job_title, motivation_letter, cv_path, motivation_letter_path) ==
    IF ValidAttachments(cv_path, motivation_letter_path) = << >>
    THEN [success |-> FALSE,
          message |-> <<"Cannot send application: No valid attachments found (CV or motivation letter)">>]
    ELSE send_email(env, recipient_email, <<"Candidature", " ">> \o job_title,
                    motivation_letter,
                    PyList(ValidAttachments(cv_path, motivation_letter_path)))

\* application_record, the dict send_application appends to the log
ApplicationRecord(cv, job, recipient_email, result, timestamp) ==
    [applicant_name |-> DictGetDefault(cv, "name", PyStr(<<"Applicant">>)),
     applicant_email |-> DictGetDefault(cv, "email", PyStr(<< >>)),
     job_id |-> DictGet(job, "id"),
     job_title |-> get_job_field(job, "title"),
     company |-> get_job_field(job, "company"),
     recipient_email |-> recipient_email,
     status |-> IF result.success THEN "sent" ELSE "failed",
     timestamp |-> timestamp,
     details |-> result]

\* the dict send_application returns after the send
ApplicationResult(job, recipient_email, result) ==
    [success |-> result.success, message |-> result.message,
     job_id |-> DictGet(job, "id"), job_title |-> get_job_field(job, "title"),
     company |-> get_job_field(job, "company"), recipient_email |-> recipient_email]

\* the dict send_application returns without a recipient
NoRecipient(job) ==
    [success |-> FALSE, message |-> <<"No application email found for this job offer">>,
     job_id |-> DictGet(job, "id"), job_title |-> get_job_field(job, "title")]

\* send_application(cv_data, job_data, motivation_letter) on the log, at the time
\* timestamp: the dict returned, the log left and the methods of email_service run
send_application(log, env, cv, job, motivation_letter, timestamp) ==
    IF ~Truthy(get_job_field(job, "application_email"))
    THEN [result |-> NoRecipient(job), log |-> log, email_service |-> << >>]
    ELSE [result |-> ApplicationResult(job, get_job_field(job, "application_email").v,
                         send_job_application(env, get_job_field(job, "application_email").v,
                                              get_job_field(job, "title").v,
                                              motivation_letter, None, None)),
          log |-> Append(log,
                     ApplicationRecord(cv, job, get_job_field(job, "application_email").v,
                         send_job_application(env, get_job_field(job, "application_email").v,
                                              get_job_field(job, "title").v,
                                              motivation_letter, None, None),
                         timestamp)),
          email_service |-> EmailServiceCalls(None, None)]

\* the positions of the records of the log whose job_id equals job_id
RecordsOf(log, job_id) == { i \in 1..Len(log) : log[i].job_id = job_id }

\* the record "for app in reversed(self.applications_log)" finds first, taking
\* the oldest one instead
FoundRecord_Oldest(log, job_id) == log[Least(RecordsOf(log, job_id))]

\* the record "for app in reversed(self.applications_log)" finds first
FoundRecord(log, job_id) ==
    log[CHOOSE i \in RecordsOf(log, job_id) : \A j \in RecordsOf(log, job_id) : j <= i]

\* get_application_status(job_id)
get_application_status(log, job_id) ==
    IF RecordsOf(log, job_id) # {} THEN FoundRecord(log, job_id)
    ELSE [found |-> FALSE, message |-> <<"No application found for this job ID">>]

MaxLog == 3    \* the records the log holds at most

\* jobs with an application email, and without one: absent, null, empty and made
\* of whitespace
ApplyJobs ==
    { [id |-> PyInt(1), title |-> PyStr(<<"Data", " ", "Engineer">>),
       company |-> PyStr(<<"Acme">>), application_email |-> PyStr(<<"hr@acme.com">>)],
      [id |-> PyInt(2), title |-> PyStr(<<"Backend", " ", "Developer">>),
       organization |-> PyStr(<<"Globex">>),
       application_email |-> PyStr(<<" ", "jobs@globex.com", "\n">>)],
      [title |-> PyStr(<<"Analyst">>), application_email |-> PyStr(<<"hr@initech.com">>)],
      [id |-> PyInt(1), title |-> PyStr(<<"Data", " ", "Engineer">>)],
      [id |-> PyInt(2), title |-> PyStr(<<"Tester">>), application_email |-> None],
      [id |-> PyInt(1), title |-> PyStr(<<"Tester">>), application_email |-> PyStr(<< >>)],
      [title |-> PyStr(<<"Tester">>), application_email |-> PyStr(<<" ", "\n">>)] }

ApplyResumes == { [k \in {} |-> None], ResumeJane }

\* the environments of the send: a connected Gmail account, an SMTP server that
\* accepts or refuses, and no credentials at all
ApplyEnvs ==
    { env \in MailEnvs :
        /\ env.gmail_api = "sent"
        /\ env.credentials_file \in {"absent", "valid"}
        /\ env.sender_email = << >> <=> env.sender_password = << >>
        /\ env.smtp \in {"sent", "SMTPException"}
        /\ env.credentials_file = "valid" => (env.sender_email = << >> /\ env.smtp = "sent") }

StatusArguments == { PyInt(1), PyInt(2), PyInt(3), None }

InitApply ==
    /\ job_data = [k \in {} |-> None]
    /\ field_name = "title"
    /\ field_value = NotCalled
    /\ model = "None"
    /\ backend = TRUE
    /\ sim_call = NotCalled
    /\ cv_data = [k \in {} |-> None]
    /\ job_offers = << >>
    /\ call = NotCalled
    /\ baseline = NotCalled
    /\ applications_log = << >>
    /\ groq_service = "None"
    /\ threads = << >>

\* application_agent.send_application(cv, job, "Dear team") in the environment env
SendApplication(env, cv, job) ==
    /\ Len(applications_log) < MaxLog
    /\ call' = [op |-> "send_application", env |-> env, cv_data |-> cv, job_data |-> job,
                result |-> Returned(send_application(applications_log, env, cv, job,
                                        <<"Dear", " ", "team">>, <<"now">>).result),
                email_service |-> send_application(applications_log, env, cv, job,
                                      <<"Dear", " ", "team">>, <<"now">>).email_service]
    /\ applications_log' = send_application(applications_log, env, cv, job,
                               <<"Dear", " ", "team">>, <<"now">>).log
    /\ UNCHANGED <<fieldVars, nlpVars, cv_data, job_offers, baseline, groq_service, threads>>

\* application_agent.get_application_status(job_id)
GetApplicationStatus(job_id) ==
    /\ call' = [op |-> "get_application_status", job_id |-> job_id,
                result |-> Returned(get_application_status(applications_log, job_id))]
    /\ UNCHANGED <<fieldVars, nlpVars, cv_data, job_offers, baseline, appVars>>

NextApply ==
    \/ \E env \in ApplyEnvs, cv \in ApplyResumes, job \in ApplyJobs : SendApplication(env, cv, job)
    \/ \E job_id \in StatusArguments : GetApplicationStatus(job_id)

SpecApply == InitApply /\ [][NextApply]_vars

-----------------------------------------------------------------------------
(* Properties of the application agent, checked under SpecApply *)

\* the job has no application email: absent, null, empty or made of whitespace
NoApplicationEmail(job) ==
    \/ DictGet(job, "application_email") = None
    \/ /\ DictGet(job, "application_email").t = "str"
       /\ Strip(DictGet(job, "application_email").v) = << >>

\* a step of send_application
IsSendApplication == call' # NotCalled /\ call'.op = "send_application" /\ vars' # vars

\* C28: for a job with an application email send_application sends through
\* EmailService.send_email and reports the outcome of that send, and it appends
\* exactly one record to applications_log, whose status is 'sent' exactly when
\* the success it returns is true.
C28_SendsThroughSendEmail ==
    [][(IsSendApplication /\ ~NoApplicationEmail(call'.job_data)) =>
          /\ Contains(<<"send_email">>, call'.email_service)
          /\ call'.result.v.success
                 = send_email(call'.env, call'.result.v.recipient_email, <<"Candidature">>,
                              <<"Dear", " ", "team">>, None).success
          /\ Len(applications_log') = Len(applications_log) + 1
          /\ SubSeq(applications_log', 1, Len(applications_log)) = applications_log
          /\ applications_log'[Len(applications_log')].status = "sent"
                 <=> call'.result.v.success]_vars

\* C29: without an application email send_application returns success = False,
\* runs nothing of the email service and leaves applications_log as it is; every
\* step leaves the records of applications_log in place and at most appends to
\* them; get_application_status(job_id) returns the record appended last for
\* that job_id.
C29_NoEmailNoSendLogOnlyGrows ==
    [][/\ (IsSendApplication /\ NoApplicationEmail(call'.job_data)) =>
              /\ call'.result.v.success = FALSE
              /\ call'.email_service = << >>
              /\ applications_log' = applications_log
       /\ Len(applications_log') >= Len(applications_log)
       /\ SubSeq(applications_log', 1, Len(applications_log)) = applications_log
       /\ (call' # NotCalled /\ call'.op = "get_application_status") =>
              \A i \in 1..Len(applications_log) :
                  (/\ applications_log[i].job_id = call'.job_id
                   /\ \A j \in (i + 1)..Len(applications_log) :
                          applications_log[j].job_id # call'.job_id)
                      => call'.result.v = applications_log[i]]_vars

\* a job whose application email is made of whitespace was refused while the log
\* held two records of one job
C29_Witness ==
    /\ call # NotCalled /\ call.op = "send_application"
    /\ DictGet(call.job_data, "application_email") = PyStr(<<" ", "\n">>)
    /\ ~call.result.v.success
    /\ Len(applications_log) >= 2
    /\ applications_log[1].job_id = applications_log[2].job_id
    /\ applications_log[1] # applications_log[2]

=============================================================================
